---- MODULE Spec2Model ----
(***************************************************************************)
(* L402 toolkit: the issuer-side protocol module l402.js (macaroon         *)
(* minting, stateless verification, the 402 challenge handler) modelled    *)
(* as a state machine.                                                     *)
(*                                                                         *)
(* Strings are sequences of atoms.  An atom is a TLA+ string standing for  *)
(* a run of characters that contains no blank, no '=', no ':' and no      *)
(* digit ("resource_id", "A"), or for one such special character.          *)
(* Cryptographic functions are symbolic and collision free.                *)
(***************************************************************************)
EXTENDS Integers, Sequences, FiniteSets, Bags, TLC

VARIABLES now, tok, call, invoices, http, probe, file, calls, paid, reply, startup

vars == <<now, tok, call, invoices, http, probe, file, calls, paid, reply, startup>>

\* the state of the wallet MCP server and the observer's note; the issuer
\* never touches them
walletVars == <<probe, file, calls, paid, reply>>

(***************************************************************************)
(* Bounds                                                                  *)
(***************************************************************************)
MaxCaveats == 4
MaxInvoices == 2
\* pay_invoice calls in flight at once, and payments settled by LND in all
MaxCalls == 2
MaxPayments == 2

(***************************************************************************)
(* Program constants                                                       *)
(***************************************************************************)
ExpirySeconds == 1800
PriceSats == 10
MsPerSecond == 1000
BudgetSats == 1000
MsatPerSat == 1000
MinSecretLength == 32

CONFIG ==
    [ secret        |-> "server-secret",
      location      |-> <<"localhost">>,
      priceSats     |-> PriceSats,
      expirySeconds |-> ExpirySeconds ]

\* a secret of n characters
SecretOfLength(n) == [str |-> [i \in 1..n |-> "k"]]

\* what initLnd finds at startup: L402_SECRET, LND_MACAROON_PATH, whether the
\* macaroon file can be read, and the TLS certificate (LND_TLS_CERT_PATH
\* unset, a readable file, or a file that exists and cannot be read)
StartupEnvs ==
    [ secret : {[undefined |-> TRUE], [str |-> <<>>],
                SecretOfLength(MinSecretLength - 1), SecretOfLength(MinSecretLength)},
      lndMacaroonPath : {[undefined |-> TRUE], [str |-> <<"path">>]},
      macaroonReadable : BOOLEAN,
      tlsCert : {"unset", "readable", "unreadable"} ]

\* a length check that lets one character less pass
SecretTooShortByTwo(secret) == Len(secret.str) < MinSecretLength - 1

\* CONFIG.secret.length < 32
SecretTooShort(secret) == Len(secret.str) < MinSecretLength

\* !x for an optional string: unset or empty
Falsy(x) == x = [undefined |-> TRUE] \/ x = [str |-> <<>>]

\* initLnd(): false when L402 is not configured or the files cannot be read
initLnd(env) ==
    IF Falsy(env.secret) THEN FALSE
    ELSE IF SecretTooShort(env.secret) THEN FALSE
    ELSE IF Falsy(env.lndMacaroonPath) THEN FALSE
    ELSE IF ~env.macaroonReadable THEN FALSE
    ELSE IF env.tlsCert = "unreadable" THEN FALSE
    ELSE TRUE

\* the servers of this repository
Servers == {"catalog", "fortune", "example"}

\* a server process that has started with L402 configured
Configured ==
    [ server |-> "catalog",
      env |-> [ secret |-> SecretOfLength(MinSecretLength),
                lndMacaroonPath |-> [str |-> <<"path">>],
                macaroonReadable |-> TRUE,
                tlsCert |-> "unset" ],
      booted |-> TRUE,
      l402Enabled |-> TRUE ]

(***************************************************************************)
(* JavaScript values                                                       *)
(***************************************************************************)
Undefined == [undefined |-> TRUE]
Null == [null |-> TRUE]
NaN == [nan |-> TRUE]
Num(n) == [num |-> n]
None == [none |-> TRUE]
\* a string value where undefined or null may stand instead
Str(s) == [str |-> s]

(***************************************************************************)
(* String helpers                                                          *)
(***************************************************************************)
Digits == <<"0", "1", "2", "3", "4", "5", "6", "7", "8", "9">>

IsBlank(c) == c = " "

RECURSIVE TrimStart(_)
TrimStart(s) ==
    IF s # <<>> /\ IsBlank(Head(s)) THEN TrimStart(Tail(s)) ELSE s

RECURSIVE TrimEnd(_)
TrimEnd(s) ==
    IF s # <<>> /\ IsBlank(s[Len(s)])
    THEN TrimEnd(SubSeq(s, 1, Len(s) - 1))
    ELSE s

\* String.prototype.trim
Trim(s) == TrimEnd(TrimStart(s))

\* String.prototype.indexOf for a one-character needle, 1-based; 0 is JS -1
IndexOf(s, c) ==
    IF \E i \in 1..Len(s) : s[i] = c
    THEN CHOOSE i \in 1..Len(s) : s[i] = c /\ \A j \in 1..(i - 1) : s[j] # c
    ELSE 0

DigitValue(c) == (CHOOSE i \in 1..10 : Digits[i] = c) - 1

IsDigit(c) == \E i \in 1..10 : Digits[i] = c

\* decimal rendering of a non-negative integer, as template literals do
RECURSIVE NumToStr(_)
NumToStr(n) ==
    IF n < 10 THEN <<Digits[n + 1]>>
    ELSE Append(NumToStr(n \div 10), Digits[(n % 10) + 1])

RECURSIVE DigitPrefixValue(_, _)
DigitPrefixValue(s, acc) ==
    IF s # <<>> /\ IsDigit(Head(s))
    THEN DigitPrefixValue(Tail(s), acc * 10 + DigitValue(Head(s)))
    ELSE acc

\* parseInt of a string without leading blanks: an optional sign, then the
\* longest digit prefix is read; NaN when there is none
ParseTrimmed(t) ==
    IF t # <<>> /\ IsDigit(Head(t)) THEN Num(DigitPrefixValue(t, 0))
    ELSE IF Len(t) > 1 /\ Head(t) = "-" /\ IsDigit(t[2])
    THEN Num(0 - DigitPrefixValue(Tail(t), 0))
    ELSE IF Len(t) > 1 /\ Head(t) = "+" /\ IsDigit(t[2])
    THEN Num(DigitPrefixValue(Tail(t), 0))
    ELSE NaN

\* parseInt: leading blanks are skipped
ParseInt(s) == CHOOSE r \in {ParseTrimmed(t) : t \in {TrimStart(s)}} : TRUE

(***************************************************************************)
(* Hex and hashing                                                         *)
(***************************************************************************)
HexLowerChars == {"a", "b"}
HexUpperChars == {"A", "B"}

IsHexChar(c) == c \in HexLowerChars \cup HexUpperChars

LowerHex(c) == IF c = "A" THEN "a" ELSE IF c = "B" THEN "b" ELSE c

\* Buffer.from(str, 'hex'): whole pairs of hex characters are decoded, the
\* decoding stops at the first pair that is not hex, case is ignored
RECURSIVE HexDecode(_)
HexDecode(s) ==
    IF Len(s) >= 2 /\ IsHexChar(s[1]) /\ IsHexChar(s[2])
    THEN <<<<LowerHex(s[1]), LowerHex(s[2])>>>> \o HexDecode(SubSeq(s, 3, Len(s)))
    ELSE <<>>

\* crypto.createHash('sha256').update(bytes).digest('hex')
Sha256Hex(bytes) == [sha256 |-> bytes]

\* HMAC-SHA256, symbolic
Hmac(key, msg) == [k |-> key, m |-> msg]

(***************************************************************************)
(* macaroons.js: builder, serializer, verifier                             *)
(***************************************************************************)
\* generate_derived_key: the root key is derived from the secret
RootKey(secret) == [root |-> secret]

\* new MacaroonsBuilder(location, secretKey, identifier)
MacaroonsBuilder(location, secret, identifier) ==
    [ location   |-> location,
      identifier |-> identifier,
      caveats    |-> <<>>,
      signature  |-> Hmac(RootKey(secret), [id |-> identifier]) ]

\* add_first_party_caveat: the caveat is appended and folded into the chain
add_first_party_caveat(m, caveat) ==
    [m EXCEPT !.caveats = Append(@, caveat),
              !.signature = Hmac(@, [cav |-> caveat])]

\* macaroon.serialize(): one packet per field, caveats in stored order
Serialize(m) ==
    [ b64 |-> <<[type |-> "location", loc |-> m.location],
                [type |-> "identifier", id |-> m.identifier]>>
              \o [i \in 1..Len(m.caveats) |-> [type |-> "cid", cid |-> m.caveats[i]]]
              \o <<[type |-> "signature", sig |-> m.signature]>> ]

WellFormed(blob) ==
    LET p == blob.b64 IN
    /\ Len(p) >= 3
    /\ p[1].type = "location"
    /\ p[2].type = "identifier"
    /\ p[Len(p)].type = "signature"
    /\ \A i \in 3..(Len(p) - 1) : p[i].type = "cid"

DeserializeError == [text |-> "Couldn't deserialize macaroon"]

\* MacaroonsBuilder.deserialize(): throws on input that is not a macaroon
Deserialize(blob) ==
    IF WellFormed(blob)
    THEN LET p == blob.b64 IN
         [ threw |-> FALSE,
           macaroon |-> [ location   |-> p[1].loc,
                          identifier |-> p[2].id,
                          caveats    |-> [i \in 1..(Len(p) - 3) |-> p[i + 2].cid],
                          signature  |-> p[Len(p)].sig ] ]
    ELSE [threw |-> TRUE, message |-> DeserializeError]

(***************************************************************************)
(* Error messages of verifyMacaroon                                        *)
(***************************************************************************)
PaymentNotVerified == [text |-> "Invalid preimage - payment not verified"]
Expired == [text |-> "Token expired"]
ResourceMismatch(value, requested) ==
    [text |-> "Token for resource, but requested", value |-> value, requested |-> requested]
SignatureInvalid ==
    [text |-> "Verification failed. Signature doesn't match. Maybe the key was wrong OR some caveats aren't satisfied."]

(***************************************************************************)
(* createMacaroon                                                          *)
(***************************************************************************)
\* `key = ${value}`
CaveatText(key, value) == <<key, " ", "=", " ">> \o value

NowSecondsUnscaled(nowMs) == nowMs

\* Math.floor(Date.now() / 1000)
NowSeconds(nowMs) == nowMs \div MsPerSecond

\* service || CONFIG.location: undefined and the empty string are falsy
ServiceOrLocation(service) ==
    IF service = Undefined \/ service = Str(<<>>) THEN CONFIG.location ELSE service.str

createMacaroonObject(paymentHash, resourceId, service, nowMs) ==
    LET expiresAt == NowSeconds(nowMs) + CONFIG.expirySeconds
        m0 == MacaroonsBuilder(CONFIG.location, CONFIG.secret, paymentHash)
        m1 == add_first_party_caveat(m0, CaveatText("resource_id", resourceId))
        m2 == add_first_party_caveat(m1, CaveatText("expires_at", NumToStr(expiresAt)))
    IN add_first_party_caveat(m2, CaveatText("service", ServiceOrLocation(service)))

createMacaroon(paymentHash, resourceId, service, nowMs) ==
    Serialize(createMacaroonObject(paymentHash, resourceId, service, nowMs))

(***************************************************************************)
(* verifyMacaroon                                                          *)
(***************************************************************************)
PreimageMatchesUnchecked(identifier, preimageHex) == TRUE

\* computedHash !== paymentHash, negated
PreimageMatches(identifier, preimageHex) ==
    Sha256Hex(HexDecode(preimageHex)) = identifier

\* a scope check that lets every resource pass
ResourceMatchesAlways(value, requestedResourceId) == TRUE

\* value !== requestedResourceId, negated
ResourceMatches(value, requestedResourceId) == value = requestedResourceId

\* a verifier that also gives up a token once newer challenges were issued
IsExpiredOrSuperseded(tokenExpiresAt, nowMs) ==
    /\ tokenExpiresAt # NaN
    /\ \/ tokenExpiresAt.num * MsPerSecond < nowMs
       \/ Len(invoices) > 1

\* a verifier for which no expires_at caveat is ever past
IsExpiredNever(tokenExpiresAt, nowMs) == FALSE

\* a verifier that gives up a token one second early
IsExpiredEarly(tokenExpiresAt, nowMs) ==
    /\ tokenExpiresAt # NaN
    /\ (tokenExpiresAt.num - 1) * MsPerSecond < nowMs

\* tokenExpiresAt < Date.now() / 1000; a comparison with NaN is false
IsExpired(tokenExpiresAt, nowMs) ==
    /\ tokenExpiresAt # NaN
    /\ tokenExpiresAt.num * MsPerSecond < nowMs

\* a verifier that takes only tokens of its own location
ServiceIsLocation(value) == value = CONFIG.location

\* case 'service': return true
AcceptService(value) == TRUE

RejectUnknownCaveat == FALSE

\* default: return true
AcceptUnknownCaveat == TRUE

\* a callback that takes a caveat it cannot split into key and value
UnseparatedAccepted == TRUE

\* if (eqIndex === -1) return false
UnseparatedRefused == FALSE

\* the callback given to verifier.satisfyGeneral: what it returns or throws
\* for one caveat, and what it assigns to tokenResourceId / tokenExpiresAt
CaveatCallback(caveat, requestedResourceId, nowMs) ==
    LET eqIndex == IndexOf(caveat, "=")
        key == Trim(SubSeq(caveat, 1, eqIndex - 1))
        value == Trim(SubSeq(caveat, eqIndex + 1, Len(caveat)))
        plain(r) == [ret |-> r, threw |-> None, rid |-> None, exp |-> None]
    IN
    IF eqIndex = 0 THEN plain(UnseparatedRefused)
    ELSE IF key = <<"resource_id">> THEN
        [ ret |-> TRUE,
          threw |-> IF ResourceMatches(value, requestedResourceId) THEN None
                    ELSE ResourceMismatch(value, requestedResourceId),
          rid |-> Str(value), exp |-> None ]
    ELSE IF key = <<"expires_at">> THEN
        [ ret |-> TRUE,
          threw |-> IF IsExpired(ParseInt(value), nowMs) THEN Expired ELSE None,
          rid |-> None, exp |-> ParseInt(value) ]
    ELSE IF key = <<"service">> THEN plain(AcceptService(value))
    ELSE plain(AcceptUnknownCaveat)

\* MacaroonsVerifier.macaroon_verify_inner: every caveat is handed to the
\* callback in stored order; a caveat the callback accepts is folded into
\* the chain, one it refuses is left out, an exception aborts the walk
RECURSIVE VerifyInner(_, _, _, _, _)
VerifyInner(caveats, i, st, requestedResourceId, nowMs) ==
    IF i > Len(caveats) THEN st
    ELSE
        LET r == CaveatCallback(caveats[i], requestedResourceId, nowMs)
            st1 == [ st EXCEPT
                       !.tokenResourceId = IF r.rid = None THEN @ ELSE r.rid,
                       !.tokenExpiresAt = IF r.exp = None THEN @ ELSE r.exp ]
        IN
        IF r.threw # None THEN [st1 EXCEPT !.threw = r.threw]
        ELSE VerifyInner(caveats, i + 1,
                 IF r.ret THEN [st1 EXCEPT !.csig = Hmac(@, [cav |-> caveats[i]])]
                 ELSE st1,
                 requestedResourceId, nowMs)

SignatureMatchesUnchecked(csig, signature) == TRUE

\* isValid_verify_raw: the recomputed chain against the presented signature
SignatureMatches(csig, signature) == csig = signature

Invalid(message) ==
    [ valid |-> FALSE, error |-> message, resourceId |-> Undefined,
      expiresAt |-> Undefined, paymentHash |-> Undefined ]

verifyMacaroon(macaroonB64, preimageHex, requestedResourceId, nowMs) ==
    LET d == Deserialize(macaroonB64) IN
    IF d.threw THEN Invalid(d.message)
    ELSE
        LET macaroon == d.macaroon
            paymentHash == macaroon.identifier
        IN
        IF ~PreimageMatches(paymentHash, preimageHex) THEN Invalid(PaymentNotVerified)
        ELSE
            LET st == VerifyInner(macaroon.caveats, 1,
                          [ csig |-> Hmac(RootKey(CONFIG.secret), [id |-> paymentHash]),
                            tokenResourceId |-> Null,
                            tokenExpiresAt |-> Null,
                            threw |-> None ],
                          requestedResourceId, nowMs)
            IN
            IF st.threw # None THEN Invalid(st.threw)
            ELSE IF ~SignatureMatches(st.csig, macaroon.signature)
                 THEN Invalid(SignatureInvalid)
            ELSE [ valid |-> TRUE, error |-> Undefined,
                   resourceId |-> st.tokenResourceId,
                   expiresAt |-> st.tokenExpiresAt,
                   paymentHash |-> paymentHash ]

(***************************************************************************)
(* Input domains                                                           *)
(***************************************************************************)
\* instants of Date.now(), in milliseconds
ClockPoints == {0, 500, 1799999, 1800000, 1800001}

ResourceIds == {<<"A">>, <<"B">>, <<" ", "A">>}

Services == {Undefined, Str(<<>>), Str(<<"svc">>)}

\* preimages of the payments the node knows, as the hex strings a wallet returns
PaymentPreimages == <<(<<"a", "a">>), (<<"a", "b">>), (<<"b", "a">>), (<<"b", "b">>)>>

\* the payment a credential is minted for when the engine is driven directly
EnginePayments == {1}

PaymentHash(preimageHex) == Sha256Hex(HexDecode(preimageHex))

\* what a requester may put after the colon
PresentedSecrets ==
    { <<"a", "a">>, <<"a", "b">>, <<"A", "a">>, <<"a", "a", "z", "z">>,
      <<"z", "z">>, <<"a">>, <<>> }

\* caveats a holder may append to its own token
UnknownCaveat == CaveatText("max_uses", <<"1">>)
HolderCaveats ==
    { UnknownCaveat,
      CaveatText("resource_id", <<"B">>),
      <<"no", " ", "separator">> }

(***************************************************************************)
(* The credential engine driven directly: a holder obtains a minted        *)
(* credential, may attenuate it or tamper with it, and presents it.        *)
(***************************************************************************)
InitEngine ==
    /\ now \in {0, 500}
    /\ tok = None
    /\ call = None
    /\ invoices = <<>>
    /\ http = None
    /\ probe = None
    /\ file = None
    /\ calls = <<>>
    /\ paid = <<>>
    /\ reply = None
    /\ startup = Configured

\* the token a holder has after a mint: the serialized credential plus what
\* the holder knows about it
Minted(b64, preimageHex, resourceId, service, nowMs) ==
    [ b64 |-> b64, origin |-> b64, preimage |-> preimageHex,
      resourceId |-> resourceId, service |-> service, mintMs |-> nowMs,
      edits |-> <<>> ]

Mint(i, resourceId, service) ==
    /\ call = None
    /\ tok = None
    /\ tok' = Minted(createMacaroon(PaymentHash(PaymentPreimages[i]), resourceId, service, now),
                     PaymentPreimages[i], resourceId, service, now)
    /\ UNCHANGED <<now, call, invoices, http>>
    /\ UNCHANGED <<walletVars, startup>>

\* MacaroonsBuilder.modify(m).add_first_party_caveat(c): the holder extends
\* the chain from the signature it holds
Attenuate(caveat) ==
    /\ call = None
    /\ http = None
    /\ tok # None
    /\ LET m == Deserialize(tok.b64).macaroon IN
       /\ Len(m.caveats) < MaxCaveats
       /\ tok' = [tok EXCEPT !.b64 = Serialize(add_first_party_caveat(m, caveat)),
                             !.edits = Append(@, [op |-> "attenuate", caveat |-> caveat])]
    /\ UNCHANGED <<now, call, invoices, http>>
    /\ UNCHANGED <<walletVars, startup>>

\* a signature made without the server secret
ForgedSignature(m) == Hmac(RootKey("attacker-secret"), [id |-> m.identifier])

TamperKinds == {"signature", "identifier", "resource_id", "expires_at", "service"}

OtherResource(resourceId) == IF resourceId = <<"B">> THEN <<"A">> ELSE <<"B">>

\* one field of the credential replaced, the rest (signature included) kept
Tampered(m, kind, t) ==
    IF kind = "signature" THEN [m EXCEPT !.signature = ForgedSignature(m)]
    ELSE IF kind = "identifier"
        THEN [m EXCEPT !.identifier =
                 IF @ = PaymentHash(PaymentPreimages[1])
                 THEN PaymentHash(PaymentPreimages[2])
                 ELSE PaymentHash(PaymentPreimages[1])]
    ELSE IF kind = "resource_id"
        THEN [m EXCEPT !.caveats[1] = CaveatText("resource_id", OtherResource(t.resourceId))]
    ELSE IF kind = "expires_at"
        THEN [m EXCEPT !.caveats[2] =
                 CaveatText("expires_at",
                            NumToStr(NowSeconds(t.mintMs) + 2 * CONFIG.expirySeconds))]
    ELSE [m EXCEPT !.caveats[3] = CaveatText("service", <<"other">>)]

Tamper(kind) ==
    /\ call = None
    /\ http = None
    /\ tok # None
    /\ \A i \in 1..Len(tok.edits) : tok.edits[i].op # "tamper"
    /\ tok' = [tok EXCEPT !.b64 = Serialize(Tampered(Deserialize(tok.b64).macaroon, kind, tok)),
                          !.edits = Append(@, [op |-> "tamper", kind |-> kind])]
    /\ UNCHANGED <<now, call, invoices, http>>
    /\ UNCHANGED <<walletVars, startup>>

Tick(t) ==
    /\ call = None
    /\ http = None
    /\ t > now
    /\ now' = t
    /\ UNCHANGED <<tok, call, invoices, http>>
    /\ UNCHANGED <<walletVars, startup>>

\* verifyMacaroon is synchronous: nothing else runs between the call and
\* its return
Verify(preimageHex, requestedResourceId) ==
    /\ call = None
    /\ tok # None
    /\ \E result \in {verifyMacaroon(tok.b64, preimageHex, requestedResourceId, now)} :
           call' = [ preimageHex |-> preimageHex,
                     requestedResourceId |-> requestedResourceId,
                     result |-> result ]
    /\ UNCHANGED <<now, tok, invoices, http>>
    /\ UNCHANGED <<walletVars, startup>>

Return ==
    /\ call # None
    /\ call' = None
    /\ UNCHANGED <<now, tok, invoices, http>>
    /\ UNCHANGED <<walletVars, startup>>

NextEngine ==
    \/ \E i \in EnginePayments, r \in ResourceIds, svc \in Services : Mint(i, r, svc)
    \/ \E c \in HolderCaveats : Attenuate(c)
    \/ \E k \in TamperKinds : Tamper(k)
    \/ \E t \in ClockPoints : Tick(t)
    \/ \E p \in PresentedSecrets, r \in ResourceIds : Verify(p, r)
    \/ Return

SpecEngine == InitEngine /\ [][NextEngine]_vars

(***************************************************************************)
(* LND REST API                                                            *)
(***************************************************************************)
\* `L402 access: ${resourceId}`
MemoFor(resourceId) == <<"L402 access", ":", " ">> \o resourceId

\* createInvoice(amountSats, memo): POST /v1/invoices.  The node answers 200
\* with a new invoice, whose payment hash is the hash of a preimage only the
\* node knows, or the call fails (network error, non-200 status).
createInvoice(amountSats, memo, lndOk, n) ==
    IF lndOk
    THEN [ rejected |-> FALSE,
           paymentHash |-> PaymentHash(PaymentPreimages[n]),
           paymentRequest |-> [bolt11 |-> n, value |-> amountSats, memo |-> memo] ]
    ELSE [ rejected |-> TRUE, message |-> [text |-> "LND error"] ]

(***************************************************************************)
(* sendL402Challenge                                                       *)
(***************************************************************************)
EmptyObject == [k \in {} |-> Undefined]

IsString(v) == "text" \in DOMAIN v

\* Object.assign(target, source) and {...target, ...source}
Assign(target, source) == source @@ target

\* const { error, ...extra } = obj
Without(obj, key) == [k \in (DOMAIN obj) \ {key} |-> obj[k]]

DefaultMessage == [text |-> "Pay sats to access this resource", sats |-> CONFIG.priceSats]

MessageAlwaysDefault(error) == DefaultMessage

\* error || `Pay ${CONFIG.priceSats} sats to access this resource`
MessageOrDefault(error) == IF error = Undefined THEN DefaultMessage ELSE error

TokenFormat ==
    [ header |-> "Authorization: L402 <macaroon>:<preimage>",
      note |-> "Concatenate with a colon, no spaces." ]

ChallengeMacaroonDefaultResource(paymentHash, resourceId, nowMs) ==
    createMacaroon(paymentHash, <<"default">>, Undefined, nowMs)

\* createMacaroon(paymentHash, resourceId)
ChallengeMacaroon(paymentHash, resourceId, nowMs) ==
    createMacaroon(paymentHash, resourceId, Undefined, nowMs)

ChallengeWithoutInvoice ==
    [ status |-> 402,
      headers |-> [content_type |-> "application/json"],
      body |-> [error |-> "Payment Required", message |-> DefaultMessage] ]

\* catch (err): res.writeHead(500, ...); res.end({ error: 'Payment system unavailable' })
PaymentSystemUnavailable ==
    [ status |-> 500,
      headers |-> [content_type |-> "application/json"],
      body |-> [error |-> "Payment system unavailable"] ]

\* what sendL402Challenge does: the createInvoice call it makes and the
\* response it writes
sendL402Challenge(resourceId, errorOrOptions, nowMs, lndOk, n) ==
    LET isStr == errorOrOptions # Undefined /\ IsString(errorOrOptions)
        isObj == errorOrOptions # Undefined /\ ~IsString(errorOrOptions)
        error == IF isStr THEN errorOrOptions
                 ELSE IF isObj /\ "error" \in DOMAIN errorOrOptions
                      THEN errorOrOptions.error
                 ELSE Undefined
        extra == IF isObj THEN Without(errorOrOptions, "error") ELSE EmptyObject
        inv == createInvoice(CONFIG.priceSats, MemoFor(resourceId), lndOk, n)
    IN
    IF inv.rejected
    THEN [ invoice |-> None,
           createInvoiceArgs |-> [amountSats |-> CONFIG.priceSats, memo |-> MemoFor(resourceId)],
           response |-> PaymentSystemUnavailable ]
    ELSE
        LET macaroon == ChallengeMacaroon(inv.paymentHash, resourceId, nowMs)
            challenge == [ scheme |-> "L402", macaroon |-> macaroon,
                           invoice |-> inv.paymentRequest ]
            body == [ error |-> "Payment Required",
                      message |-> MessageOrDefault(error),
                      price_sats |-> CONFIG.priceSats,
                      token_expiry_seconds |-> CONFIG.expirySeconds,
                      resource_id |-> resourceId,
                      macaroon |-> macaroon,
                      invoice |-> inv.paymentRequest,
                      token_format |-> TokenFormat ]
        IN
        [ invoice |-> inv,
          createInvoiceArgs |-> [amountSats |-> CONFIG.priceSats, memo |-> MemoFor(resourceId)],
          response |-> [ status |-> 402,
                         headers |-> [ content_type |-> "application/json",
                                       www_authenticate |-> challenge ],
                         body |-> Assign(body, extra) ] ]

(***************************************************************************)
(* handleL402Auth                                                          *)
(***************************************************************************)
\* one character, or one base64 blob, of an Authorization header
Ch(x) == [c |-> x]

L402Prefix == <<Ch("L402"), Ch(" ")>>

\* String.prototype.startsWith
StartsWith(s, prefix) ==
    /\ Len(s) >= Len(prefix)
    /\ SubSeq(s, 1, Len(prefix)) = prefix

\* the base64 text handed to MacaroonsBuilder.deserialize
ToBlob(part) ==
    IF Len(part) = 1 /\ "b64" \in DOMAIN part[1] THEN part[1] ELSE [b64 |-> <<>>]

ToChars(part) == [i \in 1..Len(part) |-> part[i].c]

MalformedToken == [text |-> "Invalid token format - expected macaroon:preimage"]

AuthorizedAlways(result) == TRUE

\* if (result.valid)
Authorized(result) == result.valid

\* handleL402Auth up to its await: the request is admitted, or
\* sendL402Challenge is called with these errorOrOptions
AuthDecision(authHeader, resourceId, options, nowMs) ==
    LET opts == IF options = Undefined THEN EmptyObject ELSE options
        deny(errorOrOptions) == [admit |-> FALSE, errorOrOptions |-> errorOrOptions]
    IN
    IF authHeader # Undefined /\ StartsWith(authHeader.str, L402Prefix)
    THEN
        LET tokenPart == SubSeq(authHeader.str, Len(L402Prefix) + 1, Len(authHeader.str))
            colonIndex == IndexOf(tokenPart, Ch(":"))
        IN
        IF colonIndex = 0
        THEN deny(Assign(opts, [error |-> MalformedToken]))
        ELSE
            LET macaroonB64 == ToBlob(SubSeq(tokenPart, 1, colonIndex - 1))
                preimageHex == ToChars(SubSeq(tokenPart, colonIndex + 1, Len(tokenPart)))
                result == verifyMacaroon(macaroonB64, preimageHex, resourceId, nowMs)
            IN
            IF Authorized(result)
            THEN [admit |-> TRUE, errorOrOptions |-> None]
            ELSE deny(Assign(opts, [error |-> result.error]))
    ELSE deny(options)

\* what handleL402Auth returns, the createInvoice call it causes and the
\* response it writes (None: nothing written)
handleL402Auth(authHeader, resourceId, options, nowMs, lndOk, n) ==
    LET d == AuthDecision(authHeader, resourceId, options, nowMs) IN
    IF d.admit
    THEN [ returned |-> TRUE, invoiceCalls |-> 0,
           createInvoiceArgs |-> None,
           invoice |-> None, response |-> None ]
    ELSE
        LET sent == sendL402Challenge(resourceId, d.errorOrOptions, nowMs, lndOk, n) IN
        [ returned |-> FALSE, invoiceCalls |-> 1,
          createInvoiceArgs |-> sent.createInvoiceArgs,
          invoice |-> sent.invoice, response |-> sent.response ]

(***************************************************************************)
(* The issuer serving requests: a requester sends requests with or without *)
(* a token built from the last challenge it kept (as issued, attenuated,   *)
(* with a forged signature, or cut short); the handler answers.            *)
(***************************************************************************)
\* the options the servers of this repository hand to handleL402Auth
CatalogHints == [consumption |-> [type |-> "display", action |-> "Show the content"]]

OptionsGiven == {Undefined, CatalogHints}

\* the resource ids the servers hand to handleL402Auth: URL path segments
\* and catalog ids
ServedResourceIds == {<<"A">>, <<"B">>}

Chars(s) == [i \in 1..Len(s) |-> Ch(s[i])]

\* Authorization headers a requester may send
AuthHeaders ==
    { Undefined,
      Str(<<Ch("Bearer"), Ch(" "), Ch("x")>>),
      Str(L402Prefix \o <<Ch("garbage")>>) }
    \cup
    ( IF tok = None THEN {}
      ELSE { Str(L402Prefix \o <<tok.b64>>),
             Str(L402Prefix \o <<Ch(":")>> \o Chars(tok.preimage)),
             Str(L402Prefix \o <<Ch("garbage"), Ch(":")>> \o Chars(tok.preimage)),
             Str(L402Prefix
                 \o <<Serialize(Tampered(Deserialize(tok.b64).macaroon, "signature", tok)), Ch(":")>>
                 \o Chars(tok.preimage)),
             Str(L402Prefix
                 \o <<Serialize(add_first_party_caveat(Deserialize(tok.b64).macaroon, UnknownCaveat)),
                      Ch(":")>>
                 \o Chars(tok.preimage)) }
           \cup { Str(L402Prefix \o <<tok.b64, Ch(":")>> \o Chars(p)) : p \in PresentedSecrets } )

Init ==
    /\ now \in {0, 500}
    /\ tok = None
    /\ call = None
    /\ invoices = <<>>
    /\ http = None
    /\ probe = None
    /\ file = None
    /\ calls = <<>>
    /\ paid = <<>>
    /\ reply = None
    /\ startup = Configured

\* one request handled by handleL402Auth from arrival to return; when a
\* challenge is sent the requester may keep it in place of its token
HandleRequest(authHeader, resourceId, options, lndOk, keep) ==
    /\ http = None
    /\ \E n \in {Len(invoices) + 1} :
       \E out \in {handleL402Auth(authHeader, resourceId, options, now, lndOk, n)} :
       /\ (out.invoice # None) => Len(invoices) < MaxInvoices
       /\ out.returned => (lndOk /\ ~keep)
       /\ (out.invoice = None) => ~keep
       /\ http' = [ authorization |-> authHeader,
                    resourceId |-> resourceId,
                    options |-> options,
                    nowMs |-> now,
                    lndOk |-> lndOk,
                    returned |-> out.returned,
                    invoiceCalls |-> out.invoiceCalls,
                    createInvoiceArgs |-> out.createInvoiceArgs,
                    invoice |-> out.invoice,
                    response |-> out.response ]
       /\ invoices' = IF out.invoice = None THEN invoices
                      ELSE Append(invoices, out.invoice)
       /\ tok' = IF keep
                 THEN Minted(out.response.body.macaroon, PaymentPreimages[n],
                             resourceId, Undefined, now)
                 ELSE tok
    /\ UNCHANGED <<now, call>>
    /\ UNCHANGED <<walletVars, startup>>

\* the exchange is over
Close ==
    /\ http # None
    /\ http' = None
    /\ UNCHANGED <<now, tok, call, invoices>>
    /\ UNCHANGED <<walletVars, startup>>

Next ==
    \/ \E h \in AuthHeaders, r \in ServedResourceIds, o \in OptionsGiven, ok \in BOOLEAN, k \in BOOLEAN :
           HandleRequest(h, r, o, ok, k)
    \/ Close
    \/ \E t \in ClockPoints : Tick(t)

Spec == Init /\ [][Next]_vars

(***************************************************************************)
(* The issuer called by any application: the options object is the         *)
(* caller's, and may name fields the challenge body also has.              *)
(***************************************************************************)
\* hints with a per-resource price for display
PricedHints == [consumption |-> [type |-> "display", action |-> "Show the content"],
                price_sats |-> 5]

\* hints that name the resource themselves
ScopedHints == [resource_id |-> <<"B">>]

CallerOptions == OptionsGiven \cup {PricedHints, ScopedHints}

NextOptions ==
    \/ \E h \in AuthHeaders, r \in ServedResourceIds, o \in CallerOptions, ok \in BOOLEAN, k \in BOOLEAN :
           HandleRequest(h, r, o, ok, k)
    \/ Close
    \/ \E t \in ClockPoints : Tick(t)

SpecOptions == Init /\ [][NextOptions]_vars

(***************************************************************************)
(* The issuer with its await made visible: handleL402Auth suspends on       *)
(* createInvoice until LND answers (resolve), fails (reject), or neither.   *)
(* No timer is armed anywhere: https.request is called without a timeout.   *)
(***************************************************************************)
GatewayHeaders ==
    { Undefined, Str(L402Prefix \o <<Ch("garbage")>>) }
    \cup ( IF tok = None THEN {}
           ELSE { Str(L402Prefix \o <<tok.b64, Ch(":")>> \o Chars(p)) :
                      p \in {tok.preimage, <<"z", "z">>} } )

Awaiting == http # None /\ http.phase = "awaiting createInvoice"

Answered == http # None /\ http.phase = "done"

\* a request arrives; the synchronous part of handleL402Auth runs up to
\* `await createInvoice(...)`, whose request is written to the socket
Receive(authHeader, resourceId, options) ==
    /\ http = None
    /\ \E d \in {AuthDecision(authHeader, resourceId, options, now)} :
           http' = [ phase |-> IF d.admit THEN "done" ELSE "awaiting createInvoice",
                     authorization |-> authHeader,
                     resourceId |-> resourceId,
                     nowMs |-> now,
                     errorOrOptions |-> d.errorOrOptions,
                     lnd |-> IF d.admit THEN "idle" ELSE "requested",
                     returned |-> d.admit,
                     response |-> None ]
    /\ UNCHANGED <<now, tok, call, invoices>>
    /\ UNCHANGED <<walletVars, startup>>

\* res.on('end') with status 200: the promise resolves and sendL402Challenge
\* writes the 402
LndResolves(keep) ==
    /\ Awaiting
    /\ http.lnd = "requested"
    /\ Len(invoices) < MaxInvoices
    /\ \E n \in {Len(invoices) + 1} :
       \E sent \in {sendL402Challenge(http.resourceId, http.errorOrOptions, now, TRUE, n)} :
           /\ http' = [http EXCEPT !.phase = "done", !.lnd = "answered",
                                   !.response = sent.response]
           /\ invoices' = Append(invoices, sent.invoice)
           /\ tok' = IF keep
                     THEN Minted(sent.response.body.macaroon, PaymentPreimages[n],
                                 http.resourceId, Undefined, now)
                     ELSE tok
    /\ UNCHANGED <<now, call>>
    /\ UNCHANGED <<walletVars, startup>>

\* req.on('error'), a status other than 200 or an unparsable answer: the
\* promise rejects and the catch block writes the 500
LndRejects ==
    /\ Awaiting
    /\ http.lnd = "requested"
    /\ \E sent \in {sendL402Challenge(http.resourceId, http.errorOrOptions, now, FALSE, 0)} :
           http' = [http EXCEPT !.phase = "done", !.lnd = "failed",
                                !.response = sent.response]
    /\ UNCHANGED <<now, tok, call, invoices>>
    /\ UNCHANGED <<walletVars, startup>>

\* LND holds the connection open and never answers: no 'end' and no 'error'
\* event will be emitted for this request
LndGoesSilent ==
    /\ Awaiting
    /\ http.lnd = "requested"
    /\ http' = [http EXCEPT !.lnd = "silent"]
    /\ UNCHANGED <<now, tok, call, invoices>>
    /\ UNCHANGED <<walletVars, startup>>

\* time passes, whether or not a request is suspended
Elapse(t) ==
    /\ t > now
    /\ now' = t
    /\ UNCHANGED <<tok, call, invoices, http>>
    /\ UNCHANGED <<walletVars, startup>>

\* handleL402Auth has returned and the exchange is over
Complete ==
    /\ Answered
    /\ http' = None
    /\ UNCHANGED <<now, tok, call, invoices>>
    /\ UNCHANGED <<walletVars, startup>>

NextGateway ==
    \/ \E h \in GatewayHeaders, r \in ServedResourceIds, o \in OptionsGiven : Receive(h, r, o)
    \/ \E k \in BOOLEAN : LndResolves(k)
    \/ LndRejects
    \/ LndGoesSilent
    \/ \E t \in ClockPoints : Elapse(t)
    \/ Complete

\* the event loop runs every callback whose event has been emitted: an answer
\* or a failure of LND that is due is delivered, a finished exchange is closed
SpecGateway ==
    /\ Init
    /\ [][NextGateway]_vars
    /\ WF_vars(\E k \in BOOLEAN : LndResolves(k))
    /\ WF_vars(LndRejects)
    /\ WF_vars(Complete)

(***************************************************************************)
(* Verification among other traffic: a holder presents its token to         *)
(* verifyMacaroon again and again while other requests are challenged and   *)
(* verified and the clock advances; an observer notes one verification.     *)
(***************************************************************************)
\* headers of the requests that arrive between two verifications
OtherHeaders ==
    {Undefined}
    \cup ( IF tok = None THEN {}
           ELSE { Str(L402Prefix \o <<tok.b64, Ch(":")>> \o Chars(p)) :
                      p \in {tok.preimage, <<"z", "z">>} } )

\* the observer notes the verification that just ran
NoteVerification ==
    /\ call # None
    /\ probe = None
    /\ probe' = [ macaroonB64 |-> tok.b64,
                  preimageHex |-> call.preimageHex,
                  requestedResourceId |-> call.requestedResourceId,
                  nowMs |-> now,
                  challenges |-> Len(invoices),
                  result |-> call.result ]
    /\ UNCHANGED <<startup, now, tok, call, invoices, http, file, calls, paid, reply>>

\* a request is handled between two direct calls of verifyMacaroon
ServeRequest(authHeader, resourceId, keep) ==
    /\ call = None
    /\ HandleRequest(authHeader, resourceId, Undefined, TRUE, keep)

NextVerifier ==
    \/ \E h \in OtherHeaders, r \in ServedResourceIds, k \in BOOLEAN : ServeRequest(h, r, k)
    \/ Close
    \/ \E t \in ClockPoints : Tick(t)
    \/ \E p \in {<<"a", "a">>, <<"z", "z">>}, r \in ServedResourceIds : Verify(p, r)
    \/ NoteVerification
    \/ Return

SpecVerifier == Init /\ [][NextVerifier]_vars

(***************************************************************************)
(* A token in use: the requester obtains a token from a challenge and       *)
(* presents it with request after request while the clock advances; an     *)
(* observer notes one request that the token authorized.                    *)
(***************************************************************************)
\* the observer notes the request that was just authorized
NoteAdmission ==
    /\ http # None
    /\ http.returned
    /\ probe = None
    /\ probe' = [ authorization |-> http.authorization,
                  resourceId |-> http.resourceId,
                  nowMs |-> http.nowMs ]
    /\ UNCHANGED <<startup, now, tok, call, invoices, http, file, calls, paid, reply>>

NextReuse ==
    \/ \E h \in OtherHeaders, r \in ServedResourceIds, o \in OptionsGiven,
          ok \in BOOLEAN, k \in BOOLEAN :
           HandleRequest(h, r, o, ok, k)
    \/ NoteAdmission
    \/ Close
    \/ \E t \in ClockPoints : Tick(t)

SpecReuse == Init /\ [][NextReuse]_vars

(***************************************************************************)
(* The example servers: example-catalog-server.js, example-fortune-server   *)
(* and example-server.  A process starts, calls initLnd once, and then      *)
(* answers requests for its protected route.                                *)
(***************************************************************************)
\* CATALOG of example-catalog-server.js
CATALOG ==
    << [ id |-> <<"A">>, title |-> <<"R", "e", "p">>, type |-> <<"report">>,
         description |-> <<"m", "i", "n", "e">>,
         consumption |-> CatalogHints.consumption, content |-> <<"content", "A">> ],
       [ id |-> <<"B">>, title |-> <<"C", "l", "i", "p">>, type |-> <<"video">>,
         description |-> <<"p", "a", "y">>,
         consumption |-> CatalogHints.consumption, content |-> <<"content", "B">> ] >>

\* a lookup that settles for the first item
CatalogFindFirst(id) == <<CATALOG[1]>>

\* CATALOG.find(r => r.id === id): the item in a sequence, or the empty
\* sequence
CatalogFind(id) ==
    IF \E i \in 1..Len(CATALOG) : CATALOG[i].id = id
    THEN <<CATALOG[CHOOSE i \in 1..Len(CATALOG) : CATALOG[i].id = id]>>
    ELSE <<>>

\* the last segment of the requested path: absent, a catalog id, or another
PathIds == {Undefined, Str(<<"A">>), Str(<<"Z">>)}

ErrorResponse(status, error) ==
    [ status |-> status,
      headers |-> [content_type |-> "application/json"],
      body |-> [error |-> error] ]

\* the 200 answer that carries the protected content
ContentResponse(resourceId, content) ==
    [ status |-> 200,
      headers |-> [content_type |-> "application/json"],
      body |-> [id |-> resourceId, content |-> content, paid |-> TRUE] ]

\* what the route does before it turns to handleL402Auth: an answer, or None
BeforeAuth(server, pathId, l402Enabled) ==
    IF server = "catalog"
    THEN IF pathId = Undefined THEN ErrorResponse(404, "Not found")
         ELSE IF CatalogFind(pathId.str) = <<>> THEN ErrorResponse(404, "Resource not found")
         ELSE IF ~l402Enabled THEN ErrorResponse(503, "L402 not configured")
         ELSE None
    ELSE IF server = "fortune"
    THEN IF ~l402Enabled THEN ErrorResponse(503, "L402 not configured") ELSE None
    ELSE IF ~l402Enabled THEN ErrorResponse(404, "Not found") ELSE None

\* the resource id the route hands to handleL402Auth
RouteResourceId(server, pathId) ==
    IF server = "catalog" THEN CatalogFind(pathId.str)[1].id
    ELSE IF server = "fortune" THEN <<"fortune">>
    ELSE IF pathId = Undefined THEN <<"default">> ELSE pathId.str

\* the options the route hands to handleL402Auth
RouteOptions(server, pathId) ==
    IF server = "catalog"
    THEN [consumption |-> CatalogFind(pathId.str)[1].consumption]
    ELSE Undefined

\* the content the route serves
RouteContent(server, pathId) ==
    IF server = "catalog" THEN CatalogFind(pathId.str)[1].content
    ELSE <<"content">> \o RouteResourceId(server, pathId)

\* a route that goes on after a challenge
RefusedNever(authorized) == FALSE

\* if (!authorized) return
Refused(authorized) == ~authorized

InitServers ==
    /\ now = 0
    /\ tok = None
    /\ call = None
    /\ invoices = <<>>
    /\ http = None
    /\ probe = None
    /\ file = None
    /\ calls = <<>>
    /\ paid = <<>>
    /\ reply = None
    /\ startup \in [ server : Servers, env : StartupEnvs,
                     booted : {FALSE}, l402Enabled : {FALSE} ]

\* const l402Enabled = l402.initLnd()
Boot ==
    /\ ~startup.booted
    /\ startup' = [startup EXCEPT !.booted = TRUE, !.l402Enabled = initLnd(startup.env)]
    /\ UNCHANGED <<now, tok, call, invoices, http>>
    /\ UNCHANGED walletVars

\* a GET for the protected route of the server; the requester may keep the
\* credential of a challenge and pay its invoice
RouteRequest(pathId, authHeader, lndOk, keep) ==
    /\ startup.booted
    /\ http = None
    /\ \E early \in {BeforeAuth(startup.server, pathId, startup.l402Enabled)} :
       IF early # None
       THEN /\ ~keep
            /\ lndOk
            /\ http' = [ pathId |-> pathId,
                         authorization |-> authHeader,
                         auth |-> <<>>,
                         resourceId |-> <<>>,
                         nowMs |-> now,
                         returned |-> FALSE,
                         invoiceCalls |-> 0,
                         invoice |-> None,
                         response |-> early ]
            /\ UNCHANGED <<invoices, tok>>
       ELSE
       \E rid \in {RouteResourceId(startup.server, pathId)}, n \in {Len(invoices) + 1} :
       \E out \in {handleL402Auth(authHeader, rid, RouteOptions(startup.server, pathId),
                                  now, lndOk, n)} :
       /\ (out.invoice # None) => Len(invoices) < MaxInvoices
       /\ out.returned => (lndOk /\ ~keep)
       /\ (out.invoice = None) => ~keep
       /\ http' = [ pathId |-> pathId,
                    authorization |-> authHeader,
                    auth |-> <<rid>>,
                    resourceId |-> rid,
                    nowMs |-> now,
                    returned |-> out.returned,
                    invoiceCalls |-> out.invoiceCalls,
                    invoice |-> out.invoice,
                    response |-> IF Refused(out.returned) THEN out.response
                                 ELSE ContentResponse(rid, RouteContent(startup.server, pathId)) ]
       /\ invoices' = IF out.invoice = None THEN invoices
                      ELSE Append(invoices, out.invoice)
       /\ tok' = IF keep
                 THEN Minted(out.response.body.macaroon, PaymentPreimages[n],
                             rid, Undefined, now)
                 ELSE tok
    /\ UNCHANGED <<now, call>>
    /\ UNCHANGED <<walletVars, startup>>

NextServers ==
    \/ Boot
    \/ \E p \in PathIds, h \in AuthHeaders, ok \in BOOLEAN, k \in BOOLEAN :
           RouteRequest(p, h, ok, k)
    \/ Close

SpecServers == InitServers /\ [][NextServers]_vars

(***************************************************************************)
(* The free endpoints of example-catalog-server.js: service info, catalog  *)
(* and search, next to its protected route.                                *)
(***************************************************************************)
LowerOf(c) ==
    CASE c = "R" -> "r"
      [] c = "E" -> "e"
      [] c = "P" -> "p"
      [] c = "C" -> "c"
      [] OTHER -> c

\* String.prototype.toLowerCase
ToLowerCase(s) == [i \in 1..Len(s) |-> LowerOf(s[i])]

\* String.prototype.includes
Includes(s, needle) ==
    \E i \in 1..(Len(s) + 1) :
        /\ i + Len(needle) - 1 <= Len(s)
        /\ SubSeq(s, i, i + Len(needle) - 1) = needle

\* the l402 block that precedes the results
ProtocolHints ==
    [ price_sats |-> CONFIG.priceSats,
      token_expiry_seconds |-> CONFIG.expirySeconds,
      endpoint |-> "/api/resource/{id}" ]

\* a listing that hands out the whole catalog item
ListingOfEverything(item) == item

\* item => ({ id, title, type, description, l402_url, cost_sats })
Listing(item) ==
    [ id |-> item.id,
      title |-> item.title,
      type |-> item.type,
      description |-> item.description,
      l402_url |-> <<"/api/resource/">> \o item.id,
      cost_sats |-> CONFIG.priceSats ]

Ok200(body) ==
    [status |-> 200, headers |-> [content_type |-> "application/json"], body |-> body]

\* GET / and GET /api
ServiceInfo(l402Enabled) ==
    Ok200([ name |-> "L402 Media Catalog",
            protocol |-> "L402",
            l402_enabled |-> l402Enabled,
            price_sats |-> CONFIG.priceSats,
            token_expiry_seconds |-> CONFIG.expirySeconds,
            endpoints |-> [ info |-> "/api", catalog |-> "/api/catalog",
                            search |-> "/api/search?q=keyword",
                            resource |-> "/api/resource/{id}" ] ])

\* GET /api/catalog
CatalogListing ==
    Ok200([ l402 |-> ProtocolHints,
            results |-> [i \in 1..Len(CATALOG) |-> Listing(CATALOG[i])] ])

Matches(item, query) ==
    \/ Includes(ToLowerCase(item.title), query)
    \/ Includes(ToLowerCase(item.description), query)

RECURSIVE Filter(_, _)
Filter(items, query) ==
    IF items = <<>> THEN <<>>
    ELSE IF Matches(Head(items), query)
         THEN <<Head(items)>> \o Filter(Tail(items), query)
         ELSE Filter(Tail(items), query)

\* url.searchParams.get('q') || ''
QueryOrEmpty(q) == IF q = Undefined THEN <<>> ELSE q.str

\* GET /api/search?q=
SearchListing(q) ==
    LET query == ToLowerCase(QueryOrEmpty(q))
        matches == Filter(CATALOG, query)
    IN Ok200([ l402 |-> ProtocolHints,
               query |-> query,
               count |-> Len(matches),
               results |-> [i \in 1..Len(matches) |-> Listing(matches[i])] ])

FreePaths == {"/", "/api", "/api/catalog", "/api/search"}

\* values of the q parameter: absent, empty, a title in capitals, a letter
\* of both items, and the first word of the paid content
Queries ==
    { Undefined, Str(<<>>), Str(<<"R", "E", "P">>), Str(<<"i">>), Str(<<"content">>) }

FreeResponse(path, q, l402Enabled) ==
    IF path \in {"/", "/api"} THEN ServiceInfo(l402Enabled)
    ELSE IF path = "/api/catalog" THEN CatalogListing
    ELSE SearchListing(q)

\* a GET for one of the free endpoints, with whatever Authorization header
FreeRequest(path, q, authHeader) ==
    /\ startup.booted
    /\ http = None
    /\ http' = [ path |-> path,
                 query |-> q,
                 authorization |-> authHeader,
                 auth |-> <<>>,
                 resourceId |-> <<>>,
                 nowMs |-> now,
                 returned |-> FALSE,
                 invoiceCalls |-> 0,
                 invoice |-> None,
                 response |-> FreeResponse(path, q, startup.l402Enabled) ]
    /\ UNCHANGED <<now, tok, call, invoices>>
    /\ UNCHANGED <<walletVars, startup>>

InitDiscovery ==
    /\ InitServers
    /\ startup.server = "catalog"

NextDiscovery ==
    \/ Boot
    \/ \E p \in PathIds, h \in AuthHeaders, ok \in BOOLEAN, k \in BOOLEAN :
           RouteRequest(p, h, ok, k)
    \/ \E path \in FreePaths, q \in Queries, h \in AuthHeaders : FreeRequest(path, q, h)
    \/ Close

SpecDiscovery == InitDiscovery /\ [][NextDiscovery]_vars

(***************************************************************************)
(* The wallet MCP server (mcp/lnd-wallet-mcp.js): configuration, spending   *)
(* log, and the pay_invoice tool.  JavaScript numbers are Num(n), strings   *)
(* Str(s).  LND answers with decimal strings, as its REST API does.         *)
(***************************************************************************)
\* CONFIG of lnd-wallet-mcp.js
WalletCONFIG == [budgetSats |-> BudgetSats]

\* JSON.stringify of a number or a string: NaN is written as null
JsonValue(v) ==
    IF "num" \in DOMAIN v THEN [number |-> NumToStr(v.num)]
    ELSE IF "str" \in DOMAIN v THEN [string |-> v.str]
    ELSE [literal |-> "null"]

\* a parser that keeps the text of a number
ParsedValueAsText(j) ==
    IF "number" \in DOMAIN j THEN Str(j.number)
    ELSE IF "string" \in DOMAIN j THEN Str(j.string)
    ELSE Null

\* JSON.parse of a number, a string or null
ParsedValue(j) ==
    IF "number" \in DOMAIN j THEN Num(DigitPrefixValue(j.number, 0))
    ELSE IF "string" \in DOMAIN j THEN Str(j.string)
    ELSE Null

\* JSON.stringify(log, null, 2)
JsonStringify(log) ==
    [ text |->
        [ totalSpentSats |-> JsonValue(log.totalSpentSats),
          payments |-> [ i \in 1..Len(log.payments) |->
                           [k \in DOMAIN log.payments[i] |-> JsonValue(log.payments[i][k])] ] ] ]

\* JSON.parse(text)
JsonParse(content) ==
    [ totalSpentSats |-> ParsedValue(content.text.totalSpentSats),
      payments |-> [ i \in 1..Len(content.text.payments) |->
                       [ k \in DOMAIN content.text.payments[i] |->
                             ParsedValue(content.text.payments[i][k]) ] ] ]

ZeroLog == [totalSpentSats |-> Num(0), payments |-> <<>>]

\* a spending log that is there but is no JSON
Unparsable == [garbage |-> TRUE]

\* a loader that takes a ledger it cannot read for a spent budget
loadSpendingLogSpent(content) ==
    IF content = None THEN ZeroLog
    ELSE IF content = Unparsable
    THEN [totalSpentSats |-> Num(WalletCONFIG.budgetSats), payments |-> <<>>]
    ELSE JsonParse(content)

\* loadSpendingLog: a missing or unparsable file gives the zero log
loadSpendingLog(content) ==
    IF content = None \/ content = Unparsable THEN ZeroLog ELSE JsonParse(content)

\* saveSpendingLog: what writeFileSync leaves in the file
saveSpendingLog(log) == JsonStringify(log)

\* BOLT11 invoices the agent may be handed, with what LND decodes from them
\* (GET /v1/payreq): amount as a decimal string, absent for a zero-amount
\* invoice, and the description
Bolt11(head, sats, description) ==
    [ head |-> head, tail |-> <<"rest">>, num_satoshis |-> sats, description |-> description ]

WalletInvoices ==
    { Bolt11(<<"lnbc">>, Undefined, Str(<<"tip">>)),
      Bolt11(<<"lnbc", "1", "0">>, Str(<<"1", "0">>), Undefined),
      Bolt11(<<"lnbc", "5", "0">>, Str(<<"5", "0">>), Str(<<"L402 access", ":", " ", "A">>)),
      Bolt11(<<"lnbc", "1", "0", "0">>, Str(<<"1", "0", "0">>), Str(<<"L402 access", ":", " ", "B">>)),
      Bolt11(<<"lnbc", "9", "5", "0">>, Str(<<"9", "5", "0">>), Str(<<"bulk">>)) }

\* invoices LND decodes to no amount, an empty one, zero or a negative one
UnpayableInvoices ==
    { Bolt11(<<"lnbc">>, Undefined, Str(<<"tip">>)),
      Bolt11(<<"lnbc", "e">>, Str(<<>>), Undefined),
      Bolt11(<<"lnbc", "0">>, Str(<<"0">>), Undefined),
      Bolt11(<<"lnbc", "-", "5">>, Str(<<"-", "5">>), Undefined) }

\* result of GET /v1/payreq/<invoice>
DecodedPayReq(invoice) ==
    [num_satoshis |-> invoice.num_satoshis, description |-> invoice.description]

\* routing fees LND may report in payment_route.total_fees_msat
RoutingFeesMsat == {Undefined, Str(<<"5", "0", "0">>)}

\* answers of POST /v1/channels/transactions: the request fails, the payment
\* fails, or the payment settles with a preimage and a route
PayAnswers ==
    { [kind |-> "rejected"],
      [kind |-> "payment_error", payment_error |-> Str(<<"no_route">>),
       total_fees_msat |-> Undefined] }
    \cup { [kind |-> "settled", payment_error |-> Str(<<>>), total_fees_msat |-> f] :
               f \in RoutingFeesMsat }

\* a handler that takes payment_error for success
PaymentErrorIgnored(result) == FALSE

\* if (result.payment_error): a non-empty string
PaymentFailed(result) ==
    result.payment_error # Undefined /\ result.payment_error # Str(<<>>)

\* a handler that stops when the client has cancelled the request
AbortedWhenCancelled(c) == c.cancelled

\* the handler of pay_invoice takes only { invoice }: it never reads the
\* abort signal of the request, so a cancelled call runs on
Aborted(c) == FALSE

\* err.message of the two errors pay_invoice can catch after the budget check
LndError == "LND"
WriteError == "write"

\* x || "0" for an optional string
OrZero(x) == IF x = Undefined \/ x = Str(<<>>) THEN <<"0">> ELSE x.str

\* x || ""
OrEmpty(x) == IF x = Undefined THEN <<>> ELSE x.str

\* Buffer.from(b64, "base64").toString("hex")
RECURSIVE HexEncode(_)
HexEncode(bytes) ==
    IF bytes = <<>> THEN <<>> ELSE Head(bytes) \o HexEncode(Tail(bytes))

\* the preimage LND releases for an invoice, as bytes
PreimageBytes(invoice) == <<<<"a", "b">>>>

\* invoice.substring(0, 40) + "..."
InvoiceSummary(invoice) == invoice.head \o <<"...">>

\* Math.ceil(feeMsat / 1000)
FeeSats(feeMsat) == (feeMsat + MsatPerSat - 1) \div MsatPerSat

\* amountSats + feeSats
TotalCost(amountSats, feeSats) == amountSats + feeSats

\* log.totalSpentSats = totalCostSats
Assigned(totalSpentSats, totalCostSats) == totalCostSats

\* log.totalSpentSats += totalCostSats
Raised(totalSpentSats, totalCostSats) == totalSpentSats + totalCostSats

\* steps 4 to 6 of pay_invoice: the entry pushed and the total raised
Debit(log, invoice, amountSats, answer, nowMs) ==
    LET feeMsat == ParseInt(OrZero(answer.total_fees_msat)).num
        feeSats == FeeSats(feeMsat)
        totalCostSats == TotalCost(amountSats, feeSats)
    IN [ totalSpentSats |-> Num(Raised(log.totalSpentSats.num, totalCostSats)),
         payments |-> Append(log.payments,
             [ invoice |-> Str(InvoiceSummary(invoice)),
               amountSats |-> Num(amountSats),
               feeMsat |-> Num(feeMsat),
               feeSats |-> Num(feeSats),
               totalCostSats |-> Num(totalCostSats),
               preimage |-> Str(HexEncode(PreimageBytes(invoice))),
               description |-> Str(OrEmpty(DecodedPayReq(invoice).description)),
               timestamp |-> Str(<<"iso">> \o NumToStr(nowMs)) ]) ]

\* a check that stops only the amount zero
IsZero(amountSats) == amountSats = 0

\* amountSats <= 0
NotPositive(amountSats) == amountSats <= 0

BudgetCheckSkipped(amountSats, remaining) == FALSE

\* amountSats > remaining
OverBudget(amountSats, remaining) == amountSats > remaining

InitWallet ==
    /\ now = 0
    /\ tok = None
    /\ call = None
    /\ invoices = <<>>
    /\ http = None
    /\ probe = None
    /\ file = None
    /\ calls = EmptyBag
    /\ paid = EmptyBag
    /\ reply = None
    /\ startup = Configured

\* what a pay_invoice call hands back to the MCP client in this step, with
\* the number of pay requests it made
Reply(result, pays) == [result |-> result, pays |-> pays]

\* payments LND has settled or may still settle
PayRequestsSent ==
    BagCardinality(paid) + Cardinality({c \in BagToSet(calls) : c.pc = "pay"})

\* the tool is called: pay_invoice runs up to `await lndRequest("GET", ...)`.
\* Nothing reads the invoice of a call before its decode request is
\* answered, so the invoice is drawn there.
PayInvoiceCalled ==
    /\ BagCardinality(calls) < MaxCalls
    /\ calls' = calls (+) SetToBag({[pc |-> "decode", cancelled |-> FALSE]})
    /\ reply' = None
    /\ UNCHANGED <<startup, now, tok, call, invoices, http, probe, file, paid>>

\* the decode request is answered: pay_invoice runs from step 1 to
\* `await lndRequest("POST", ...)`, or returns
PayInvoiceDecoded(c, invoice, lndOk) ==
    /\ BagIn(c, calls)
    /\ c.pc = "decode"
    /\ LET amountSats == ParseInt(OrZero(DecodedPayReq(invoice).num_satoshis)).num
           log == loadSpendingLog(file)
           remaining == WalletCONFIG.budgetSats - log.totalSpentSats.num
           returns(result) ==
               /\ calls' = calls (-) SetToBag({c})
               /\ reply' = Reply(result, 0)
       IN
       IF ~lndOk
       THEN returns([text |-> "Payment error", message |-> LndError])
       ELSE IF NotPositive(amountSats)
       THEN returns([ text |-> "Error: Invoice has no amount or zero amount.",
                      num_satoshis |-> DecodedPayReq(invoice).num_satoshis ])
       ELSE IF OverBudget(amountSats, remaining)
       THEN returns([ text |-> "BUDGET EXCEEDED", invoiceSats |-> amountSats,
                      remaining |-> remaining, limit |-> WalletCONFIG.budgetSats ])
       ELSE /\ PayRequestsSent < MaxPayments
            /\ calls' = (calls (-) SetToBag({c}))
                        (+) SetToBag({[ pc |-> "pay", cancelled |-> c.cancelled,
                                        invoice |-> invoice,
                                        amountSats |-> amountSats, log |-> log ]})
            /\ reply' = None
    /\ UNCHANGED <<startup, now, tok, call, invoices, http, probe, file, paid>>

\* the pay request is answered: pay_invoice runs from the check of
\* payment_error to its return; writeFileSync may throw.  paid is what LND
\* has settled, whatever the handler does with the answer; probe notes a
\* settled payment whose write failed, and abandoned whether the client had
\* cancelled the call that succeeds.
PayInvoiceSettled(c, answer, diskOk) ==
    /\ BagIn(c, calls)
    /\ c.pc = "pay"
    /\ calls' = calls (-) SetToBag({c})
    /\ paid' = IF answer.kind = "settled"
               THEN paid (+) SetToBag({[ payment_request |-> c.invoice,
                                         amountSats |-> c.amountSats,
                                         feeMsat |-> ParseInt(OrZero(answer.total_fees_msat)).num ]})
               ELSE paid
    /\ IF answer.kind = "rejected"
       THEN /\ reply' = Reply([text |-> "Payment error", message |-> LndError], 1)
            /\ diskOk
            /\ UNCHANGED <<file, probe>>
       ELSE IF PaymentFailed(answer)
       THEN /\ reply' = Reply([text |-> "Payment failed"], 1)
            /\ diskOk
            /\ UNCHANGED <<file, probe>>
       ELSE IF Aborted(c)
       THEN /\ reply' = None
            /\ diskOk
            /\ UNCHANGED <<file, probe>>
       ELSE \E log \in {Debit(c.log, c.invoice, c.amountSats, answer, now)} :
            IF diskOk
            THEN /\ file' = saveSpendingLog(log)
                 /\ reply' = Reply([ text |-> "Payment successful!",
                                     abandoned |-> c.cancelled ], 1)
                 /\ probe' = probe
            ELSE /\ file' = file
                 /\ reply' = Reply([text |-> "Payment error", message |-> WriteError], 1)
                 /\ probe' = [writeFailed |-> TRUE]
    /\ UNCHANGED <<startup, now, tok, call, invoices, http>>

\* notifications/cancelled: the MCP client abandons a call in flight
Cancel(c) ==
    /\ BagIn(c, calls)
    /\ ~c.cancelled
    /\ calls' = (calls (-) SetToBag({c})) (+) SetToBag({[c EXCEPT !.cancelled = TRUE]})
    /\ UNCHANGED <<startup, now, tok, call, invoices, http, probe, file, paid, reply>>

NextWallet ==
    \/ PayInvoiceCalled
    \/ \E c \in BagToSet(calls), inv \in WalletInvoices, ok \in BOOLEAN :
           PayInvoiceDecoded(c, inv, ok)
    \/ \E c \in BagToSet(calls), a \in PayAnswers, d \in BOOLEAN : PayInvoiceSettled(c, a, d)

SpecWallet == InitWallet /\ [][NextWallet]_vars

\* the wallet with a client that cancels calls whose pay request is in
\* flight, and a disk that takes every write
NextCancel ==
    \/ PayInvoiceCalled
    \/ \E c \in BagToSet(calls), inv \in WalletInvoices, ok \in BOOLEAN :
           PayInvoiceDecoded(c, inv, ok)
    \/ \E c \in {d \in BagToSet(calls) : d.pc = "pay"} : Cancel(c)
    \/ \E c \in BagToSet(calls), a \in PayAnswers : PayInvoiceSettled(c, a, TRUE)

SpecCancel == InitWallet /\ [][NextCancel]_vars

\* the wallet with an agent that pays one invoice at a time, unpayable ones
\* among them, an LND that answers and a disk that takes every write
NextAmounts ==
    \/ calls = EmptyBag /\ PayInvoiceCalled
    \/ \E c \in BagToSet(calls), inv \in WalletInvoices \cup UnpayableInvoices :
           PayInvoiceDecoded(c, inv, TRUE)
    \/ \E c \in BagToSet(calls), a \in PayAnswers : PayInvoiceSettled(c, a, TRUE)

SpecAmounts == InitWallet /\ [][NextAmounts]_vars

\* spending-log.json is damaged between two calls: readFileSync or
\* JSON.parse will throw on it
Damage ==
    /\ calls = EmptyBag
    /\ file # None
    /\ file # Unparsable
    /\ file' = Unparsable
    /\ UNCHANGED <<startup, now, tok, call, invoices, http, probe, calls, paid, reply>>

\* the wallet with an agent that pays one invoice at a time, an LND that
\* answers, a disk that takes every write, and a ledger file that may be
\* damaged while no call runs
NextDamaged ==
    \/ calls = EmptyBag /\ PayInvoiceCalled
    \/ \E c \in BagToSet(calls), inv \in WalletInvoices : PayInvoiceDecoded(c, inv, TRUE)
    \/ \E c \in BagToSet(calls), a \in PayAnswers : PayInvoiceSettled(c, a, TRUE)
    \/ Damage

SpecDamaged == InitWallet /\ [][NextDamaged]_vars

(***************************************************************************)
(* The other tools of the wallet MCP server.  Each handler holds no state   *)
(* across its one LND request, so request and answer are one step.          *)
(***************************************************************************)
\* what a tool other than pay_invoice hands back
ToolReply(tool, result) == Reply([tool |-> tool] @@ result, 0)

\* decode_invoice: GET /v1/payreq/<invoice>
DecodeInvoiceTool(invoice, lndOk) ==
    /\ reply' = IF lndOk
                THEN ToolReply("decode_invoice",
                         [ text |-> "Amount",
                           amountSats |-> ParseInt(OrZero(DecodedPayReq(invoice).num_satoshis)),
                           description |-> DecodedPayReq(invoice).description ])
                ELSE ToolReply("decode_invoice",
                         [text |-> "Error decoding invoice", message |-> LndError])
    /\ UNCHANGED <<startup, now, tok, call, invoices, http, probe, file, calls, paid>>

\* memos an agent may attach to an invoice it creates
ToolMemos == {Undefined, Str(<<"m">>)}

\* create_invoice: POST /v1/invoices on the wallet's own node (receiving)
CreateInvoiceTool(amount_sats, memo, lndOk) ==
    /\ reply' = IF lndOk
                THEN ToolReply("create_invoice",
                         [ text |-> "Invoice created!", amount_sats |-> amount_sats,
                           memo |-> IF memo = Undefined \/ memo = Str(<<>>) THEN Null ELSE memo ])
                ELSE ToolReply("create_invoice",
                         [text |-> "Error creating invoice", message |-> LndError])
    /\ UNCHANGED <<startup, now, tok, call, invoices, http, probe, file, calls, paid>>

\* check_invoice: GET /v2/invoices/lookup
CheckInvoiceTool(state, lndOk) ==
    /\ reply' = IF lndOk
                THEN ToolReply("check_invoice",
                         [ text |-> "Status",
                           settled |-> (state = "SETTLED") ])
                ELSE ToolReply("check_invoice",
                         [text |-> "Error checking invoice", message |-> LndError])
    /\ UNCHANGED <<startup, now, tok, call, invoices, http, probe, file, calls, paid>>

\* get_balance: GET /v1/balance/channels
GetBalanceTool(sat, lndOk) ==
    /\ reply' = IF lndOk
                THEN ToolReply("get_balance",
                         [ text |-> "Local balance",
                           local |-> IF sat = Undefined THEN <<"0">> ELSE sat.str ])
                ELSE ToolReply("get_balance",
                         [text |-> "Error checking balance", message |-> LndError])
    /\ UNCHANGED <<startup, now, tok, call, invoices, http, probe, file, calls, paid>>

\* a report that forgets what was spent
RemainingOfBudget(budgetSats, totalSpentSats) == budgetSats

\* CONFIG.budgetSats - log.totalSpentSats
Remaining(budgetSats, totalSpentSats) == budgetSats - totalSpentSats

\* get_budget: reads spending-log.json, no LND request
GetBudgetTool ==
    /\ \E log \in {loadSpendingLog(file)} :
          reply' = ToolReply("get_budget",
                       [ text |-> "Budget limit",
                         limit |-> WalletCONFIG.budgetSats,
                         spent |-> log.totalSpentSats.num,
                         remaining |-> Remaining(WalletCONFIG.budgetSats, log.totalSpentSats.num),
                         payments |-> Len(log.payments) ])
    /\ UNCHANGED <<startup, now, tok, call, invoices, http, probe, file, calls, paid>>

\* the wallet with every tool, an agent that pays one invoice at a time, an
\* LND that answers every pay_invoice request and a disk that takes every
\* write
NextTools ==
    \/ calls = EmptyBag /\ PayInvoiceCalled
    \/ \E c \in BagToSet(calls), inv \in WalletInvoices : PayInvoiceDecoded(c, inv, TRUE)
    \/ \E c \in BagToSet(calls), a \in PayAnswers : PayInvoiceSettled(c, a, TRUE)
    \/ \E inv \in WalletInvoices, ok \in BOOLEAN : DecodeInvoiceTool(inv, ok)
    \/ \E memo \in ToolMemos, ok \in BOOLEAN : CreateInvoiceTool(PriceSats, memo, ok)
    \/ \E st \in {"OPEN", "SETTLED"}, ok \in BOOLEAN : CheckInvoiceTool(st, ok)
    \/ \E sat \in {Undefined, Str(<<"5", "0", "0">>)}, ok \in BOOLEAN : GetBalanceTool(sat, ok)
    \/ GetBudgetTool

SpecTools == InitWallet /\ [][NextTools]_vars

(***************************************************************************)
(* Properties of the credential engine (checked under SpecEngine)          *)
(***************************************************************************)
Presented == Deserialize(tok.b64).macaroon

Unedited == tok.edits = <<>>

HasTamper == \E i \in 1..Len(tok.edits) : tok.edits[i].op = "tamper"

\* expires_at of a freshly minted credential, in seconds
MintedExpiry == (tok.mintMs \div 1000) + 1800

\* C1 (Binding): a verification is valid only if SHA-256 of the hex-decoded
\* secret equals the credential's identifier, and whenever the hash differs
\* the result is invalid with the payment-not-verified reason, whatever the
\* caveats and the signature are.
C1_Binding ==
    call # None =>
        LET matches == [sha256 |-> HexDecode(call.preimageHex)] = Presented.identifier IN
        /\ call.result.valid => matches
        /\ ~matches => /\ ~call.result.valid
                       /\ call.result.error = PaymentNotVerified

\* a tampered credential presented with a secret that does not hash to its
\* identifier is refused as payment-not-verified
C1_Witness ==
    /\ call # None
    /\ HasTamper
    /\ [sha256 |-> HexDecode(call.preimageHex)] # Presented.identifier
    /\ call.result.error = PaymentNotVerified

\* C2 (Scope isolation): a credential minted for resource A, presented with
\* its correct secret against a request for B # A, fails with the
\* resource-mismatch reason, which carries the token's scope A.
C2_ScopeIsolation ==
    ( /\ call # None
      /\ Unedited
      /\ call.preimageHex = tok.preimage
      /\ call.requestedResourceId # tok.resourceId )
    => /\ ~call.result.valid
       /\ call.result.error =
              [ text |-> "Token for resource, but requested",
                value |-> tok.resourceId,
                requested |-> call.requestedResourceId ]

\* C3 (Expiry monotonicity): a credential with expires_at = T that is
\* otherwise valid (it verifies for this secret and resource at its mint
\* time) verifies at every clock value < T and fails with Expired at every
\* clock value >= T.
C3_ExpiryMonotonic ==
    ( /\ call # None
      /\ Unedited
      /\ verifyMacaroon(tok.b64, call.preimageHex, call.requestedResourceId, tok.mintMs).valid )
    => /\ now < MintedExpiry * 1000 => call.result.valid
       /\ now >= MintedExpiry * 1000 =>
              /\ ~call.result.valid
              /\ call.result.error = Expired

\* C4 as stated (Tamper rejection): a minted credential whose signature,
\* identifier or one caveat value was changed is refused with the
\* signature-invalid or payment-not-verified reason, for every requested
\* resource and clock value.
C4_TamperReasonOriginal ==
    (call # None /\ HasTamper) =>
        /\ ~call.result.valid
        /\ call.result.error \in {SignatureInvalid, PaymentNotVerified}

CaveatValueOf(caveat) ==
    Trim(SubSeq(caveat, IndexOf(caveat, "=") + 1, Len(caveat)))

\* a caveat of the presented token fails the resource or the expiry check
SomeCaveatFails ==
    \/ CaveatValueOf(Presented.caveats[1]) # call.requestedResourceId
    \/ ParseInt(CaveatValueOf(Presented.caveats[2])).num * 1000 < now
    \/ \E i \in 4..Len(Presented.caveats) :
           Presented.caveats[i] = <<"resource_id", " ", "=", " ", "B">>
           /\ call.requestedResourceId # <<"B">>

\* C4 amended (Tamper rejection): a minted credential whose signature,
\* identifier or one caveat value was changed is never verified as valid,
\* for every requested resource and clock value; the reason is
\* signature-invalid or payment-not-verified unless the secret matches and
\* a caveat of the presented token fails its resource or expiry check, in
\* which case it is that caveat's resource-mismatch or expired reason.
C4_TamperRejected ==
    (call # None /\ HasTamper) =>
        /\ ~call.result.valid
        /\ \/ call.result.error \in {SignatureInvalid, PaymentNotVerified}
           \/ /\ [sha256 |-> HexDecode(call.preimageHex)] = Presented.identifier
              /\ SomeCaveatFails
              /\ \/ call.result.error = Expired
                 \/ call.result.error.text = "Token for resource, but requested"

\* a credential with a forged signature whose caveats all pass is refused
\* as signature-invalid
C4_Witness ==
    /\ call # None
    /\ Len(tok.edits) = 1
    /\ tok.edits[1] = [op |-> "tamper", kind |-> "signature"]
    /\ call.preimageHex = tok.preimage
    /\ call.requestedResourceId = tok.resourceId
    /\ call.result.error = SignatureInvalid

OnlyUnknownAttenuations ==
    /\ tok.edits # <<>>
    /\ \A i \in 1..Len(tok.edits) :
           tok.edits[i] = [op |-> "attenuate", caveat |-> <<"max_uses", " ", "=", " ", "1">>]

\* C5 (Attenuation transparency): a credential to which the holder appended
\* an unrecognized caveat, re-deriving the signature through the chain,
\* verifies exactly as the credential it was derived from.
C5_AttenuationTransparent ==
    (call # None /\ OnlyUnknownAttenuations) =>
        call.result = verifyMacaroon(tok.origin, call.preimageHex,
                                     call.requestedResourceId, now)

\* an attenuated credential that verifies as valid
C5_Witness ==
    /\ call # None
    /\ OnlyUnknownAttenuations
    /\ call.result.valid

\* C6 (Mint/verify round trip): the credential minted for R and payment
\* (H, S), presented with S against a request for R, is valid at every clock
\* value before its expiry, with resourceId = R and expiresAt = mint time +
\* validity, and yields Expired after the validity window.
C6_RoundTrip ==
    ( /\ call # None
      /\ Unedited
      /\ call.preimageHex = tok.preimage
      /\ call.requestedResourceId = tok.resourceId )
    => /\ now < MintedExpiry * 1000 =>
              /\ call.result.valid
              /\ call.result.resourceId = [str |-> tok.resourceId]
              /\ call.result.expiresAt = [num |-> MintedExpiry]
       /\ now > MintedExpiry * 1000 =>
              /\ ~call.result.valid
              /\ call.result.error = Expired

\* C7 (Minted shape): a minted credential has the payment hash as its
\* identifier and exactly the three caveats resource_id, expires_at
\* (now + expirySeconds) and service (defaulting to the location), in this
\* order.
C7_MintedShape ==
    (tok # None /\ Unedited) =>
        /\ Presented.identifier = [sha256 |-> HexDecode(tok.preimage)]
        /\ Presented.caveats =
              << <<"resource_id", " ", "=", " ">> \o tok.resourceId,
                 <<"expires_at", " ", "=", " ">> \o NumToStr(MintedExpiry),
                 <<"service", " ", "=", " ">> \o
                     (IF tok.service \in {Undefined, [str |-> <<>>]}
                      THEN <<"localhost">> ELSE tok.service.str) >>

\* a credential minted half a second into a second, with no service given
C7_Witness ==
    /\ tok # None
    /\ Unedited
    /\ tok.mintMs = 500
    /\ tok.service = Undefined
    /\ Len(Presented.caveats) = 3

(***************************************************************************)
(* Properties of the challenge handler (checked under Spec)                *)
(***************************************************************************)
\* the request of the exchange, read as the protocol describes it
HasL402Token ==
    /\ http.authorization # Undefined
    /\ Len(http.authorization.str) >= 2
    /\ http.authorization.str[1] = [c |-> "L402"]
    /\ http.authorization.str[2] = [c |-> " "]

TokenText == SubSeq(http.authorization.str, 3, Len(http.authorization.str))

Splits == HasL402Token /\ \E i \in 1..Len(TokenText) : TokenText[i] = [c |-> ":"]

FirstColon == CHOOSE i \in 1..Len(TokenText) :
                  TokenText[i] = [c |-> ":"] /\ \A j \in 1..(i - 1) : TokenText[j] # [c |-> ":"]

CredentialHalf == ToBlob(SubSeq(TokenText, 1, FirstColon - 1))

SecretHalf == ToChars(SubSeq(TokenText, FirstColon + 1, Len(TokenText)))

VerificationOfRequest ==
    verifyMacaroon(CredentialHalf, SecretHalf, http.resourceId, http.nowMs)

\* C8 (Authenticated iff valid token): handleL402Auth returns true exactly
\* when the request carries an L402 token that splits into credential and
\* secret and verifyMacaroon reports it valid for the requested resource;
\* then no payment request is created and no response is written; in every
\* other case it returns false and a response has been sent.
C8_AuthenticatedIffValid ==
    http # None =>
        /\ http.returned <=> (Splits /\ VerificationOfRequest.valid)
        /\ http.returned => /\ http.invoiceCalls = 0
                            /\ http.createInvoiceArgs = None
                            /\ http.invoice = None
                            /\ http.response = None
        /\ ~http.returned => http.response # None

\* a request with a valid token was admitted
C8_Witness ==
    /\ http # None
    /\ http.returned
    /\ Splits

ChallengeSent == http # None /\ http.response # None /\ http.response.status = 402

ChallengeCredential == Deserialize(http.response.body.macaroon).macaroon

\* the challenge of this exchange is priced, is for the requested resource,
\* is bound to the payment request just created, and reuses nothing
FreshPricedChallenge ==
    /\ ChallengeSent
    /\ http.invoice # None
    /\ http.invoice.paymentRequest.value = 10
    /\ http.response.body.price_sats = 10
    /\ http.response.body.invoice = http.invoice.paymentRequest
    /\ http.response.headers.www_authenticate.invoice = http.invoice.paymentRequest
    /\ http.response.headers.www_authenticate.macaroon = http.response.body.macaroon
    /\ ChallengeCredential.identifier = http.invoice.paymentHash
    /\ ChallengeCredential.caveats[1] = <<"resource_id", " ", "=", " ">> \o http.resourceId
    /\ invoices # <<>>
    /\ invoices[Len(invoices)] = http.invoice
    /\ \A i \in 1..(Len(invoices) - 1) : invoices[i].paymentHash # http.invoice.paymentHash
    /\ Splits => CredentialHalf # http.response.body.macaroon

WrongSecret == [sha256 |-> HexDecode(SecretHalf)] # Deserialize(CredentialHalf).macaroon.identifier

WrongResource ==
    CaveatValueOf(Deserialize(CredentialHalf).macaroon.caveats[1]) # http.resourceId

ExpiredNow ==
    ParseInt(CaveatValueOf(Deserialize(CredentialHalf).macaroon.caveats[2])).num * 1000
        < http.nowMs

\* C10 (Failure cause in the challenge): the challenge carries the default
\* message exactly for requests without a token, the malformed-token
\* message exactly for tokens that cannot be split, and otherwise the
\* verification failure; wrong-secret, wrong-resource and expired tokens
\* get three further, different messages.
C10_CauseInChallenge ==
    ChallengeSent =>
        LET message == http.response.body.message IN
        /\ ~HasL402Token <=> message = [text |-> "Pay sats to access this resource", sats |-> 10]
        /\ (HasL402Token /\ ~Splits) <=>
               message = [text |-> "Invalid token format - expected macaroon:preimage"]
        /\ Splits => message = VerificationOfRequest.error
        /\ (Splits /\ WellFormed(CredentialHalf)) =>
               IF WrongSecret
               THEN message.text = "Invalid preimage - payment not verified"
               ELSE IF WrongResource
               THEN message.text = "Token for resource, but requested"
               ELSE IF ExpiredNow
               THEN message.text = "Token expired"
               ELSE TRUE

\* a token without a colon was answered with the malformed-token message
C10_Witness ==
    /\ ChallengeSent
    /\ HasL402Token
    /\ ~Splits
    /\ http.response.body.message.text = "Invalid token format - expected macaroon:preimage"

\* a secret made of hexadecimal digits only
AllHex(secret) ==
    \A i \in 1..Len(secret) : secret[i] \in {"a", "b", "A", "B"} \/ IsDigit(secret[i])

\* the token of the request is malformed: no colon, an empty credential
\* half, an empty secret half, or a secret that is not entirely hexadecimal
MalformedRequestToken ==
    /\ HasL402Token
    /\ \/ ~Splits
       \/ FirstColon = 1
       \/ SecretHalf = <<>>
       \/ ~AllHex(SecretHalf)

\* C11 (Malformed tokens are rejected): for every presented token with a
\* missing colon, an empty credential half, an empty secret half or a secret
\* that is not entirely hexadecimal, handleL402Auth returns false, having
\* answered the request, and never authenticates it.
C11_MalformedRejected ==
    (http # None /\ MalformedRequestToken) =>
        /\ ~http.returned
        /\ http.response # None

C13_EventuallyAnswered == Awaiting ~> (Answered /\ http.response # None)

\* the verification that just ran has the inputs of the noted one
SameInputsAsNoted ==
    /\ call # None
    /\ probe # None
    /\ tok.b64 = probe.macaroonB64
    /\ call.preimageHex = probe.preimageHex
    /\ call.requestedResourceId = probe.requestedResourceId
    /\ now = probe.nowMs

RepeatsNoted ==
    /\ http # None
    /\ probe # None
    /\ http.authorization = probe.authorization
    /\ http.resourceId = probe.resourceId
    /\ http.nowMs >= probe.nowMs

\* expires_at of the token of the request in hand, in milliseconds
TokenExpiryMs ==
    ParseInt(CaveatValueOf(Deserialize(CredentialHalf).macaroon.caveats[2])).num * 1000

PersistedTotal(content) ==
    IF content = None THEN 0
    ELSE DigitPrefixValue(content.text.totalSpentSats.number, 0)

\* the payment records as written in spending-log.json
PersistedPayments(content) == IF content = None THEN <<>> ELSE content.text.payments

RECURSIVE SumOfCosts(_)
SumOfCosts(records) ==
    IF records = <<>> THEN 0
    ELSE DigitPrefixValue(Head(records).totalCostSats.number, 0) + SumOfCosts(Tail(records))

RECURSIVE SumOfLoggedCosts(_)
SumOfLoggedCosts(payments) ==
    IF payments = <<>> THEN 0
    ELSE Head(payments).totalCostSats.num + SumOfLoggedCosts(Tail(payments))

\* a call left its decode stage in this step
DecodeAnsweredInStep ==
    \E d \in BagToSet(calls) : d.pc = "decode" /\ CopiesIn(d, calls') < CopiesIn(d, calls)

\* the calls that sent their pay request in this step
PayRequestsOfStep ==
    {c \in BagToSet(calls') :
        c.pc = "pay" /\ CopiesIn(c, calls') > CopiesIn(c, calls) /\ DecodeAnsweredInStep}

BudgetExceededReply(r) == r # None /\ r.result.text = "BUDGET EXCEEDED"

\* C16 (Budget enforcement): pay_invoice sends the pay request only when the
\* decoded amount is at most 1000 - totalSpent of the ledger; when the amount
\* exceeds the remaining budget it answers BUDGET EXCEEDED without a pay
\* request and leaves the ledger unchanged; every positive amount gets one
\* or the other.
C16_BudgetEnforced ==
    [][ /\ \A c \in PayRequestsOfStep :
              /\ c.amountSats <= 1000 - PersistedTotal(file)
              /\ reply' = None
        /\ (BudgetExceededReply(reply') /\ calls' # calls) =>
              /\ reply'.result.invoiceSats > 1000 - PersistedTotal(file)
              /\ reply'.result.remaining = 1000 - PersistedTotal(file)
              /\ reply'.pays = 0
              /\ PayRequestsOfStep = {}
              /\ file' = file
              /\ paid' = paid ]_vars

\* with 950 of 1000 spent, a 100 sat invoice has just been refused while the
\* pay request of a 50 sat invoice is in flight
C16_Witness ==
    /\ PersistedTotal(file) = 950
    /\ BudgetExceededReply(reply)
    /\ reply.result.invoiceSats = 100
    /\ \E c \in BagToSet(calls) : c.pc = "pay" /\ c.amountSats = 50 /\ c.log.totalSpentSats.num = 950

\* C17 (The budget is the maximum spend): the recorded totalSpentSats never
\* exceeds budgetSats, whatever pay_invoice calls are made and whatever
\* routing fees LND reports.
C17_SpentWithinBudget == PersistedTotal(file) <= 1000

\* C18 (Ledger invariant): in the persisted ledger and in every log object a
\* call holds, totalSpentSats equals the sum of totalCostSats over the
\* payment records.
C18_LedgerSum ==
    /\ PersistedTotal(file) = SumOfCosts(PersistedPayments(file))
    /\ \A c \in BagToSet(calls) :
           c.pc = "pay" => c.log.totalSpentSats.num = SumOfLoggedCosts(c.log.payments)

\* a payment of 10 sats with a routing fee of 1 sat is persisted, and a later
\* call holds the ledger it loaded from that file
C18_Witness ==
    /\ Len(PersistedPayments(file)) = 1
    /\ PersistedTotal(file) = 11
    /\ \E c \in BagToSet(calls) :
           c.pc = "pay" /\ Len(c.log.payments) = 1 /\ c.log.totalSpentSats.num = 11

\* the call whose payment was settled and recorded in this step, with the
\* settlement LND reported
SettledInStep(c, e) ==
    /\ c.pc = "pay"
    /\ BagIn(c, calls)
    /\ calls' = calls (-) SetToBag({c})
    /\ paid' = paid (+) SetToBag({e})
    /\ reply' # None
    /\ reply'.result.text = "Payment successful!"

\* C19 (Ledger durability): a successful pay_invoice of amount a with routing
\* fee f raises the persisted totalSpentSats by exactly a + ceil(f / 1000),
\* appends exactly one payment record, and the reloaded ledger is the log
\* object the call holds.
C19_DebitPersisted ==
    [][ \A c \in BagToSet(calls), e \in BagToSet(paid') :
            SettledInStep(c, e) =>
                /\ PersistedTotal(file') =
                       PersistedTotal(file) + e.amountSats + ((e.feeMsat + 999) \div 1000)
                /\ Len(PersistedPayments(file')) = Len(PersistedPayments(file)) + 1
                /\ SubSeq(PersistedPayments(file'), 1, Len(PersistedPayments(file)))
                       = PersistedPayments(file)
                /\ loadSpendingLog(file').totalSpentSats.num
                       = c.log.totalSpentSats.num + e.amountSats + ((e.feeMsat + 999) \div 1000) ]_vars

\* C20 (Ledger round trip): loadSpendingLog after saveSpendingLog(L) returns
\* L for every ledger L the server holds, what is persisted is what saving
\* the loaded ledger writes, and a missing file loads as the zero-spend
\* state.
C20_LedgerRoundTrip ==
    /\ \A c \in BagToSet(calls) :
           c.pc = "pay" => loadSpendingLog(saveSpendingLog(c.log)) = c.log
    /\ file # None => saveSpendingLog(loadSpendingLog(file)) = file
    /\ file = None =>
           loadSpendingLog(file) = [totalSpentSats |-> [num |-> 0], payments |-> <<>>]

\* a ledger of two payments, the second with a routing fee, has been saved
C20_Witness ==
    /\ Len(PersistedPayments(file)) = 2
    /\ loadSpendingLog(file).totalSpentSats = [num |-> 1001]
    /\ loadSpendingLog(file).payments[2].feeSats = [num |-> 1]

\* C21 (Failure leaves the ledger): when the pay request fails (LND reports
\* payment_error, or the request itself fails) the persisted ledger is left
\* as it was, the failure is returned to the caller, and no further pay
\* request is sent: one pay request per call at most, none when the answer
\* is BUDGET EXCEEDED.
C21_FailureLeavesLedger ==
    [][ /\ \A c \in BagToSet(calls) :
              (c.pc = "pay" /\ calls' = calls (-) SetToBag({c}) /\ paid' = paid) =>
                  /\ file' = file
                  /\ reply' # None
                  /\ reply'.result.text \in {"Payment failed", "Payment error"}
                  /\ reply'.pays = 1
                  /\ PayRequestsOfStep = {}
        /\ reply' # None => reply'.pays <= 1
        /\ BudgetExceededReply(reply') => reply'.pays = 0 ]_vars

\* a payment failure has been returned while the ledger holds an earlier
\* payment
C21_Witness ==
    /\ reply # None
    /\ reply.result.text = "Payment failed"
    /\ reply.pays = 1
    /\ Len(PersistedPayments(file)) = 1
    /\ BagCardinality(paid) = 1

\* C22 (Atomic check and debit): calls of pay_invoice exclude each other
\* over read, check, pay and write, so no two calls in flight have passed
\* the budget check against the same totalSpentSats.
C22_MutualExclusion ==
    \A c \in BagToSet(calls) :
        c.pc = "pay" =>
            /\ CopiesIn(c, calls) = 1
            /\ \A d \in BagToSet(calls) \ {c} :
                   d.pc = "pay" => d.log.totalSpentSats # c.log.totalSpentSats

BudgetCheckedInStep ==
    \/ PayRequestsOfStep # {}
    \/ BudgetExceededReply(reply') /\ DecodeAnsweredInStep

\* C24 (Write failure is fatal): once the ledger write has failed after a
\* settled payment, the failure ends the agent's invocation: no later
\* budget check runs against the ledger that omits the payment.
C24_WriteFailureFatal ==
    [][ probe # None => ~BudgetCheckedInStep ]_vars

\* the answer of a tool other than pay_invoice
ToolAnswer(r) == r # None /\ "tool" \in DOMAIN r.result

\* C25 (Read-only tools): decode_invoice, create_invoice, check_invoice,
\* get_balance and get_budget leave the ledger as it is and send no pay
\* request; get_budget reports remaining = 1000 - totalSpentSats of the
\* persisted ledger; the ledger changes only in the step of a pay_invoice
\* call whose payment LND settled.
C25_ReadOnlyTools ==
    [][ /\ ToolAnswer(reply') =>
              /\ file' = file
              /\ paid' = paid
              /\ calls' = calls
              /\ reply'.pays = 0
        /\ (ToolAnswer(reply') /\ reply'.result.tool = "get_budget") =>
              /\ reply'.result.spent = PersistedTotal(file')
              /\ reply'.result.remaining = 1000 - PersistedTotal(file')
              /\ reply'.result.payments = Len(PersistedPayments(file'))
        /\ file' # file =>
              \E c \in BagToSet(calls), e \in BagToSet(paid') : SettledInStep(c, e) ]_vars

\* get_budget has reported 989 sats remaining after a payment of 10 sats
\* with a fee of 1 sat, while a pay request is in flight
C25_Witness ==
    /\ ToolAnswer(reply)
    /\ reply.result.tool = "get_budget"
    /\ reply.result.remaining = 989
    /\ Len(PersistedPayments(file)) = 1
    /\ \E c \in BagToSet(calls) : c.pc = "pay"

(***************************************************************************)
(* Properties of the example servers (checked under SpecServers)            *)
(***************************************************************************)
ContentSent == http # None /\ "content" \in DOMAIN http.response.body

C27_InitLnd ==
    startup.booted =>
        LET unset == startup.env.secret = [undefined |-> TRUE]
            short == ~unset /\ Len(startup.env.secret.str) < 32
            nopath == startup.env.lndMacaroonPath = [undefined |-> TRUE]
            unreadable == ~startup.env.macaroonReadable
        IN /\ (unset \/ short \/ nopath \/ unreadable) => ~startup.l402Enabled
           /\ startup.l402Enabled => ~(unset \/ short \/ nopath \/ unreadable)

\* a server has started with a secret of 32 characters and L402 enabled
C27_Witness ==
    /\ startup.booted
    /\ startup.l402Enabled
    /\ Len(startup.env.secret.str) = 32
    /\ startup.env.tlsCert = "readable"

\* C30 (Unknown resource): the catalog server answers a request for an id
\* that is not in the catalog with 404 without calling handleL402Auth: no
\* payment request is created and no credential minted, with or without a
\* token in the request.
C30_UnknownResource ==
    [][ ( /\ http = None
          /\ http' # None
          /\ startup.server = "catalog"
          /\ http'.pathId # Undefined
          /\ \A i \in 1..Len(CATALOG) : CATALOG[i].id # http'.pathId.str ) =>
            /\ http'.response.status = 404
            /\ DOMAIN http'.response.body = {"error"}
            /\ http'.auth = <<>>
            /\ http'.invoiceCalls = 0
            /\ http'.invoice = None
            /\ invoices' = invoices
            /\ tok' = tok ]_vars

\* an id that is not in the catalog was requested with a paid token for a
\* catalog resource, on a server with L402 enabled
C30_Witness ==
    /\ http # None
    /\ startup.server = "catalog"
    /\ startup.l402Enabled
    /\ http.pathId = [str |-> <<"Z">>]
    /\ tok # None
    /\ http.authorization = Str(L402Prefix \o <<tok.b64, Ch(":")>> \o Chars(tok.preimage))
    /\ http.response.status = 404

(***************************************************************************)
(* Order of the verification steps (checked under SpecEngine)               *)
(***************************************************************************)
SecretMatches == [sha256 |-> HexDecode(call.preimageHex)] = Presented.identifier

CaveatKeyOf(caveat) == Trim(SubSeq(caveat, 1, IndexOf(caveat, "=") - 1))

\* the callback has no key to look at: it returns false
RefusedAt(i) == IndexOf(Presented.caveats[i], "=") = 0

\* the resource or expiry check of caveat i fails for this call
ThrowsAt(i) ==
    LET c == Presented.caveats[i] IN
    /\ ~RefusedAt(i)
    /\ \/ /\ CaveatKeyOf(c) = <<"resource_id">>
          /\ CaveatValueOf(c) # call.requestedResourceId
       \/ /\ CaveatKeyOf(c) = <<"expires_at">>
          /\ ParseInt(CaveatValueOf(c)) # NaN
          /\ ParseInt(CaveatValueOf(c)).num * 1000 < now

FirstThrowing == CHOOSE i \in 1..Len(Presented.caveats) :
                     ThrowsAt(i) /\ \A j \in 1..(i - 1) : ~ThrowsAt(j)

\* the reason the failing check of caveat i carries
ReasonAt(i) ==
    IF CaveatKeyOf(Presented.caveats[i]) = <<"resource_id">>
    THEN [ text |-> "Token for resource, but requested",
           value |-> CaveatValueOf(Presented.caveats[i]),
           requested |-> call.requestedResourceId ]
    ELSE [text |-> "Token expired"]

\* steps 1 and 2 of the order: the secret first, then the caveats in stored
\* order
SecretThenCaveats ==
    /\ ~SecretMatches =>
          /\ ~call.result.valid
          /\ call.result.error = PaymentNotVerified
    /\ (SecretMatches /\ \E i \in 1..Len(Presented.caveats) : ThrowsAt(i)) =>
          /\ ~call.result.valid
          /\ call.result.error = ReasonAt(FirstThrowing)

SiblingServices == Services \cup {Str(<<"elsewhere">>)}

\* the credential minted as the held one was, but with another service
Sibling(service) ==
    createMacaroon(Presented.identifier, tok.resourceId, service, tok.mintMs)

\* C29 (Service caveat): for a minted credential and the credential minted
\* under the same secret for the same payment, resource and time with any
\* other service value, verifyMacaroon gives the same validity for every
\* secret, requested resource and clock value, whether or not the service
\* equals the verifier's location.
C29_ServiceAccepted ==
    (call # None /\ Unedited) =>
        \A service \in SiblingServices :
            verifyMacaroon(Sibling(service), call.preimageHex,
                           call.requestedResourceId, now).valid
                = call.result.valid

\* a credential minted for a service that is not the verifier's location
\* verifies as valid
C29_Witness ==
    /\ call # None
    /\ Unedited
    /\ tok.service = Str(<<"svc">>)
    /\ Str(<<"svc">>) # Str(CONFIG.location)
    /\ call.result.valid


\* caveats a holder may try to append to the credential it presents: a
\* later and an earlier expiry than the issuer's, and the requested resource
FarExpiry == CaveatText("expires_at", <<"9", "9", "9", "9", "9">>)

PastExpiry == CaveatText("expires_at", <<"1">>)

AppendedCaveats ==
    {FarExpiry, PastExpiry, CaveatText("resource_id", call.requestedResourceId)}

\* the resource or expiry condition of one caveat fails for this call
ConditionFails(c) ==
    /\ IndexOf(c, "=") # 0
    /\ \/ /\ CaveatKeyOf(c) = <<"resource_id">>
          /\ CaveatValueOf(c) # call.requestedResourceId
       \/ /\ CaveatKeyOf(c) = <<"expires_at">>
          /\ ParseInt(CaveatValueOf(c)) # NaN
          /\ ParseInt(CaveatValueOf(c)).num * 1000 < now

\* the presented credential with one more caveat appended by its holder
Attenuated(c) == add_first_party_caveat(Presented, c)

VerifiedAttenuated(c) ==
    verifyMacaroon(Serialize(Attenuated(c)), call.preimageHex,
                   call.requestedResourceId, now)

BodyMatchesHeader ==
    /\ http.response.body.macaroon = http.response.headers.www_authenticate.macaroon
    /\ http.response.body.invoice = http.response.headers.www_authenticate.invoice

BodyMatchesConfig ==
    /\ http.response.body.price_sats = CONFIG.priceSats
    /\ http.response.body.token_expiry_seconds = CONFIG.expirySeconds
    /\ http.response.body.resource_id = http.resourceId

\* C37 (Challenge consistency): in every 402 challenge the macaroon and the
\* invoice of the body equal those of the WWW-Authenticate header, and the
\* body's price_sats, token_expiry_seconds and resource_id equal the
\* configured price, the configured validity and the requested resource id,
\* for every options object of the caller.
C37_ChallengeConsistent ==
    ChallengeSent => (BodyMatchesHeader /\ BodyMatchesConfig)

\* the amount LND decoded is absent, empty, zero or negative
Unpayable(numSatoshis) ==
    \/ numSatoshis = Undefined
    \/ numSatoshis.str = <<>>
    \/ Head(numSatoshis.str) = "-"
    \/ \A i \in 1..Len(numSatoshis.str) : numSatoshis.str[i] = "0"

RefusedReply(r) ==
    r # None /\ r.result.text = "Error: Invoice has no amount or zero amount."

\* C34 (Unpayable invoices): pay_invoice refuses every invoice whose decoded
\* amount is zero, missing or negative: no pay request is sent for one and
\* none gets a budget answer, and the refusal is returned without a pay
\* request and with the ledger as it was, whatever the remaining budget.
C34_UnpayableRefused ==
    [][ /\ \A c \in PayRequestsOfStep : ~Unpayable(c.invoice.num_satoshis)
        /\ (BudgetExceededReply(reply') /\ DecodeAnsweredInStep) =>
              reply'.result.invoiceSats > 0
        /\ (RefusedReply(reply') /\ DecodeAnsweredInStep) =>
              /\ Unpayable(reply'.result.num_satoshis)
              /\ reply'.pays = 0
              /\ PayRequestsOfStep = {}
              /\ file' = file
              /\ paid' = paid ]_vars

\* a negative amount was refused while 990 sats of the budget remained
C34_Witness ==
    /\ RefusedReply(reply)
    /\ reply.result.num_satoshis = Str(<<"-", "5">>)
    /\ reply.pays = 0
    /\ PersistedTotal(file) = 10
    /\ BagCardinality(paid) = 1
    /\ calls = EmptyBag

\* C35 (Ledger only grows): across every step the persisted totalSpentSats
\* does not decrease and the persisted payments keep every earlier record,
\* unmodified and in place, new records being appended after them.
C35_LedgerOnlyGrows ==
    [][ /\ PersistedTotal(file') >= PersistedTotal(file)
        /\ Len(PersistedPayments(file')) >= Len(PersistedPayments(file))
        /\ SubSeq(PersistedPayments(file'), 1, Len(PersistedPayments(file)))
               = PersistedPayments(file) ]_vars

\* what the payments LND settled have cost: amount plus fee rounded up
RECURSIVE CostOfSettled(_)
CostOfSettled(S) ==
    IF S = {} THEN 0
    ELSE LET e == CHOOSE x \in S : TRUE IN
         CopiesIn(e, paid) * (e.amountSats + ((e.feeMsat + 999) \div 1000))
             + CostOfSettled(S \ {e})

\* C36 (No payment lost under concurrency): once every pay_invoice call has
\* completed and every ledger write was taken, the persisted ledger holds
\* one record per payment LND settled and totalSpentSats is the sum of
\* their total costs.
C36_NoPaymentLost ==
    (calls = EmptyBag /\ probe = None) =>
        /\ Len(PersistedPayments(file)) = BagCardinality(paid)
        /\ PersistedTotal(file) = CostOfSettled(BagToSet(paid))

\* C38 (Damaged ledger): a spending-log.json that is there but cannot be
\* read or parsed is treated as a missing one: it loads as the zero-spend
\* state, the next budget check runs against totalSpentSats = 0 (a pay
\* request for every amount up to 1000, BUDGET EXCEEDED with 1000 remaining
\* otherwise), and the next successful payment writes a ledger that holds
\* that payment only.
C38_DamagedLedger ==
    [][ file = Unparsable =>
          /\ loadSpendingLog(file) = loadSpendingLog(None)
          /\ \A c \in PayRequestsOfStep :
                /\ c.log = [totalSpentSats |-> Num(0), payments |-> <<>>]
                /\ c.amountSats <= 1000
          /\ (BudgetExceededReply(reply') /\ DecodeAnsweredInStep) =>
                /\ reply'.result.remaining = 1000
                /\ reply'.result.invoiceSats > 1000
          /\ \A c \in BagToSet(calls), e \in BagToSet(paid') :
                SettledInStep(c, e) =>
                    /\ file' # Unparsable
                    /\ Len(PersistedPayments(file')) = 1
                    /\ PersistedPayments(file')[1].amountSats
                           = [number |-> NumToStr(e.amountSats)]
                    /\ PersistedTotal(file')
                           = e.amountSats + ((e.feeMsat + 999) \div 1000) ]_vars

\* a second payment has succeeded after the ledger of the first was
\* damaged: the file holds the second payment only, and the two together
\* cost more than the budget
C38_Witness ==
    /\ calls = EmptyBag
    /\ BagCardinality(paid) = 2
    /\ CostOfSettled(BagToSet(paid)) > 1000
    /\ reply # None
    /\ reply.result.text = "Payment successful!"
    /\ file # None
    /\ file # Unparsable
    /\ Len(PersistedPayments(file)) = 1
    /\ PersistedTotal(file) = 950

\* the request answered in this step went to a free endpoint
FreeAnsweredInStep == http = None /\ http' # None /\ "path" \in DOMAIN http'

\* no field of the listing is the paid content of a catalog item
WithoutContent(listing) ==
    /\ "content" \notin DOMAIN listing
    /\ \A k \in (DOMAIN listing) \ {"cost_sats"}, j \in 1..Len(CATALOG) :
           listing[k] # CATALOG[j].content

\* C31 (Free discovery): /api, /api/catalog and /api/search of the catalog
\* server answer every request, with or without a token and with L402 on
\* or off, without calling handleL402Auth and without creating a payment
\* request or a credential, and no listing of their response carries the
\* paid content of a catalog item; a search matches titles and descriptions
\* only.
C31_FreeDiscovery ==
    [][ FreeAnsweredInStep =>
          /\ http'.auth = <<>>
          /\ http'.invoiceCalls = 0
          /\ http'.invoice = None
          /\ invoices' = invoices
          /\ tok' = tok
          /\ http'.response.status = 200
          /\ "content" \notin DOMAIN http'.response.body
          /\ "results" \in DOMAIN http'.response.body =>
                /\ \A i \in 1..Len(http'.response.body.results) :
                       WithoutContent(http'.response.body.results[i])
                /\ http'.query = Str(<<"content">>) =>
                       (http'.path = "/api/search" => http'.response.body.count = 0) ]_vars

\* a search in capitals that found the report, asked with a paid token on a
\* server with L402 enabled
C31_Witness ==
    /\ http # None
    /\ "path" \in DOMAIN http
    /\ http.path = "/api/search"
    /\ http.query = Str(<<"R", "E", "P">>)
    /\ http.response.body.count = 1
    /\ http.response.body.results[1].id = <<"A">>
    /\ startup.l402Enabled
    /\ tok # None
    /\ http.authorization = Str(L402Prefix \o <<tok.b64, Ch(":")>> \o Chars(tok.preimage))
====
